---- MODULE Spec2Model ----
(***************************************************************************)
(* Model of the aidc-toolkit publisher: the publication orchestrator       *)
(* (Publisher.publishAll), the resumable step runner of the non-alpha      *)
(* publisher (NonAlphaPublisher.#runStep / publish) and the persistence of *)
(* the configuration (loadConfiguration / saveConfiguration).              *)
(*                                                                         *)
(* One process (one invocation of the command line entry point) runs at a  *)
(* time.  The disk (configuration documents and the package manifests of   *)
(* the repositories) outlives the process; everything else is lost when    *)
(* the process ends.                                                       *)
(***************************************************************************)
EXTENDS Integers, Sequences, FiniteSets, TLC

\* Bounds of the model.
NumRepositories == 3
MaxClock == 3
MaxMajor == 3
MaxMinor == 2
MaxSecond == 2

\* JavaScript undefined / null and the absent repository name.
Undefined == "undefined"
Null == "null"
NoRepository == 0
NeverPublished == 0
NoVersion == << >>
NoDateTime == << >>

RepositoryNames == 1..NumRepositories

\* Phase (configuration.ts spells the production phase "production", the
\* non-alpha publisher "prod"; they are the same phase).
Phases == {"alpha", "beta", "prod"}
NonAlphaPhases == {"beta", "prod"}

\* PREVIOUS_PHASE is imported from configuration.js by the non-alpha publisher.
PREVIOUS_PHASE == [alpha |-> Null, beta |-> "alpha", prod |-> "beta"]

DependencyTypes == {"external", "internal", "application", "helper"}

\* type Step, in the order in which publish() walks the steps.
StepOrder ==
    <<"install", "build", "commit", "tag", "push", "workflow (push)",
      "release", "workflow (release)", "pull request", "npm wait">>

NumSteps == Len(StepOrder)

\* The start directory of the process (process.cwd() at publishAll entry).
StartDirectory == 0

VARIABLES
    repositories,   \* configuration.repositories: static part and environment
    manifest,       \* package.json version of every repository, on disk
    disk,           \* the persisted configuration documents (JSON)
    pc,             \* position of the process
    phase,          \* Publisher.#phase
    dryRun,         \* Publisher.#dryRun
    configuration,  \* Publisher.#configuration (publishState included)
    repositoryIndex,\* position of the for loop of publishAll
    repositoryPublishState, \* Publisher.#repositoryPublishState
    stepIndex,      \* position within the step sequence of publish()
    cwd,            \* process working directory
    fault,          \* an exception is propagating
    saved,          \* last document handed to saveConfiguration in this run
    exitStatus,     \* exit status of the last process that ended
    resumedFrom,    \* publishState as loaded by the constructor (history)
    attempted,      \* repositories entered in this run, in order (history)
    executed,       \* <<repository, step>> actions completed in this run (history)
    faulted,        \* a repository's build or publish threw in this run (history)
    spawned,        \* arguments of the command spawned by the running step's action
    \* One activation of #buildPublishState, in detail:
    buildInput,     \* what the activation reads: phase, dry run, branch, configuration
    buildPc,        \* position within #buildPublishState
    buildState,     \* the RepositoryPublishState under construction
    buildRepository,\* the repository's entry of configuration.repositories
    packageConfiguration, \* the parsed package.json, in memory
    packageFile,    \* package.json on disk
    commits,        \* versions committed by commitUpdatedPackageVersion, in order
    dependencyIndex,\* position of the loops over the dependencies
    buildFault,     \* the error thrown by the activation, "none" if none
    \* One call of anyChanges, in detail:
    changeInput,    \* what the call reads: phase, arguments, excludePaths, remote state
    changePc,       \* position within anyChanges
    changedFilesSet,\* the set of changed files
    committedCount, \* size of the set before the uncommitted files
    records,        \* the lines processed so far, resolved (history)
    anyChanges,     \* the value returned, undefined before the return
    changeFault,    \* the error thrown by the call, "none" if none
    mtimes,         \* fs.lstatSync(file).mtime as read by the call, in milliseconds
    \* One call of #validateWorkflow, in detail:
    workflowInput,  \* what the call reads: dry run, and the runs the commit triggers
    workflowRuns,   \* the workflow runs of the commit at GitHub: status and conclusion
    workflowPc,     \* position within #validateWorkflow
    completed,      \* the local variable completed
    queryCount,     \* the local variable queryCount
    workflowRunID,  \* the local variable workflowRunID
    response,       \* response.data.workflow_runs of the last query
    workflowFault   \* the error thrown by the call, "none" if none

mainVars ==
    <<repositories, manifest, disk, pc, phase, dryRun, configuration,
      repositoryIndex, repositoryPublishState, stepIndex, cwd, fault, saved,
      exitStatus, resumedFrom, attempted, executed, faulted, spawned>>

buildVars ==
    <<buildInput, buildPc, buildState, buildRepository, packageConfiguration,
      packageFile, commits, dependencyIndex, buildFault>>

changeVars ==
    <<changeInput, changePc, changedFilesSet, committedCount, records, anyChanges, changeFault,
      mtimes>>

workflowVars ==
    <<workflowInput, workflowRuns, workflowPc, completed, queryCount, workflowRunID, response,
      workflowFault>>

vars ==
    <<repositories, manifest, disk, pc, phase, dryRun, configuration,
      repositoryIndex, repositoryPublishState, stepIndex, cwd, fault, saved,
      exitStatus, resumedFrom, attempted, executed, faulted, spawned,
      buildInput, buildPc, buildState, buildRepository, packageConfiguration,
      packageFile, commits, dependencyIndex, buildFault,
      changeInput, changePc, changedFilesSet, committedCount, records, anyChanges, changeFault,
      mtimes,
      workflowInput, workflowRuns, workflowPc, completed, queryCount, workflowRunID, response,
      workflowFault>>

----------------------------------------------------------------------------
\* Data.

\* PhaseState: dateTime (whole seconds, NeverPublished if undefined), version
\* (NoVersion if undefined).
EmptyPhaseState == [dateTime |-> NeverPublished, version |-> NoVersion]

\* PublishState; a phase of Undefined stands for configuration.publishState
\* being undefined.
NoPublishState == [phase |-> Undefined, repositoryName |-> NoRepository, step |-> Undefined]

\* RepositoryPublishState (the fields the model keeps); a repositoryName of
\* NoRepository stands for #repositoryPublishState being undefined.
NoRepositoryPublishState ==
    [repositoryName |-> NoRepository, preReleaseIdentifier |-> Null, version |-> NoVersion]

\* get repositoryPublishState throws "Repository publish state not defined"
\* if #repositoryPublishState is undefined and returns it otherwise.
repositoryPublishStateThrows(state) == state = NoRepositoryPublishState

\* Version string MAJOR.MINOR.PATCH[-IDENTIFIER] as formatted by
\* updatePackageVersion; the model keeps the numeric part fixed.
FormatVersion(preReleaseIdentifier) == <<1, 0, 0, preReleaseIdentifier>>

\* Date.toISOString / new Date(string) of the JSON phase states.
ToISOString(dateTime) == <<"iso", dateTime>>
FromISOString(iso) == iso[2]

toJSONPhaseState(phaseState) ==
    IF phaseState.dateTime # NeverPublished
    THEN [dateTime |-> ToISOString(phaseState.dateTime), version |-> phaseState.version]
    ELSE [dateTime |-> NoDateTime, version |-> phaseState.version]

fromJSONPhaseState(jsonPhaseState) ==
    IF jsonPhaseState.dateTime # NoDateTime
    THEN [dateTime |-> FromISOString(jsonPhaseState.dateTime), version |-> jsonPhaseState.version]
    ELSE [dateTime |-> NeverPublished, version |-> jsonPhaseState.version]

\* The shared and local documents written by saveConfiguration: the shared
\* document holds the non-alpha phase states, the local one the publish state
\* and the alpha phase states.
saveConfigurationDocument(c) ==
    [shared |-> [r \in RepositoryNames |->
                    [p \in NonAlphaPhases |-> toJSONPhaseState(c.phaseStates[r][p])]],
     local |-> [publishState |-> c.publishState,
                repositories |-> [r \in RepositoryNames |->
                    [p \in {"alpha"} |-> toJSONPhaseState(c.phaseStates[r][p])]]]]

loadConfiguration(d) ==
    [publishState |-> d.local.publishState,
     phaseStates |-> [r \in RepositoryNames |->
        [p \in Phases |->
            IF p = "alpha"
            THEN fromJSONPhaseState(d.local.repositories[r][p])
            ELSE fromJSONPhaseState(d.shared[r][p])]]]

\* The document that was never handed to saveConfiguration.
NotSaved == [shared |-> << >>, local |-> << >>]

----------------------------------------------------------------------------
\* Decisions of the code, one operator each.

\* (variant of ConstructorAccepts: the phase of the persisted publish state is
\* not compared with the phase being started)
ConstructorAccepts_AnyPhase(publishState, p) == TRUE

\* Publisher constructor: the persisted publish state is accepted if there is
\* none or if it names the phase being started.
ConstructorAccepts(publishState, p) ==
    publishState.phase = Undefined \/ publishState.phase = p

ConstructorPublishState(publishState, p) ==
    IF publishState.phase = Undefined
    THEN [phase |-> p, repositoryName |-> NoRepository, step |-> Undefined]
    ELSE publishState

\* publishAll: the filter at the top of the loop body.
ShouldProcess(publishState, repositoryName) ==
    publishState.repositoryName = NoRepository \/ publishState.repositoryName = repositoryName

\* (variant of runStepRuns: the recorded step is ignored)
runStepRuns_Always(publishStateStep, step) == TRUE

\* #runStep: the step's action runs if no step is recorded or this one is.
runStepRuns(publishStateStep, step) ==
    publishStateStep = Undefined \/ publishStateStep = step

\* (variant of StepIncluded: every step is walked for every repository)
StepIncluded_Always(step, repository, p, d) == TRUE

\* publish(): the conditions under which each step is walked at all.
StepIncluded(step, repository, p, d) ==
    CASE step = "tag" -> repository.dependencyType # "helper"
      [] step = "workflow (push)" -> repository.hasPushWorkflow
      [] step = "release" -> repository.dependencyType # "helper" /\ ~d
      [] step = "workflow (release)" ->
            repository.dependencyType # "helper" /\ repository.hasReleaseWorkflow
      [] step = "pull request" -> repository.dependencyType # "helper" /\ p = "prod"
      [] step = "npm wait" -> repository.dependencyType = "external"
      [] OTHER -> TRUE

\* RunOptions.
SkipOnDryRun == "SkipOnDryRun"
ParameterizeOnDryRun == "ParameterizeOnDryRun"
RunAlways == "RunAlways"

\* No command is spawned.
NotSpawned == << >>

\* (variant of run: the run option is applied outside dry run too)
run_OptionAlways(d, runOption, args) ==
    IF runOption = SkipOnDryRun THEN NotSpawned
    ELSE IF runOption # ParameterizeOnDryRun THEN args ELSE args \o <<"--dry-run">>

\* run(runOption, false, command, ...args): the arguments handed to
\* spawnSync, the command first. Outside dry run the run option is ignored;
\* in dry run a SkipOnDryRun command is logged and not spawned and a
\* ParameterizeOnDryRun command gets a trailing --dry-run.
run(d, runOption, args) ==
    LET effectiveRunOption == IF ~d THEN RunAlways ELSE runOption
    IN IF effectiveRunOption = SkipOnDryRun THEN NotSpawned
       ELSE IF effectiveRunOption # ParameterizeOnDryRun THEN args
            ELSE args \o <<"--dry-run">>

\* The command that the action of a step runs, without the arguments that
\* name the phase, the tag, the branch and the files. The steps that are
\* not listed call the GitHub API or wait.
StepCommand ==
    [install |-> [runOption |-> ParameterizeOnDryRun, args |-> <<"npm", "install">>],
     build |-> [runOption |-> SkipOnDryRun, args |-> <<"npm", "run", "build", "--if-present">>],
     commit |-> [runOption |-> ParameterizeOnDryRun, args |-> <<"git", "commit", "--message">>],
     tag |-> [runOption |-> SkipOnDryRun, args |-> <<"git", "tag">>],
     push |-> [runOption |-> ParameterizeOnDryRun,
               args |-> <<"git", "push", "--atomic", "origin">>]]

\* What the action of a step can spawn: its command, for the commit step
\* only if git reports modified files.
StepSpawns(step, d) ==
    IF step \notin DOMAIN StepCommand THEN {NotSpawned}
    ELSE {run(d, StepCommand[step].runOption, StepCommand[step].args)}
            \cup (IF step = "commit" THEN {NotSpawned} ELSE {})

\* Whether the action of a step can throw: commands skipped on dry run, the
\* workflow validation on dry run and the timer do nothing that can fail.
StepCanFault(step, d) ==
    CASE step \in {"build", "tag", "workflow (push)", "workflow (release)"} -> ~d
      [] step = "npm wait" -> FALSE
      [] OTHER -> TRUE

\* updatePhaseState: the date/time is rounded up to the next whole second.
RoundUpDateTime(dateTime) == dateTime + 1

\* (variant of WrittenBySave: the documents are never written)
WrittenBySave_Never(doc, d, onDisk) == onDisk

\* saveConfiguration: what is on disk after saving document doc.
WrittenBySave(doc, d, onDisk) == IF d THEN onDisk ELSE doc

\* savePackageConfiguration: what package.json holds after saving.
WrittenBySavePackage(version, d, onDisk) == IF d THEN onDisk ELSE version

\* publishAll catches everything thrown in its body and logs it, so the
\* promise it returns is resolved whether or not something was thrown.
PublishAllSettles(thrown) == "resolved"

\* Entry point: process.exit(1) ("failure") in the catch of the publishAll
\* promise; a process that runs to its end otherwise exits with status 0.
EntryPointExitStatus(settled) == IF settled = "rejected" THEN "failure" ELSE "success"

\* The other values of exitStatus: the process has not ended; it ended with
\* the exception thrown by the constructor; it was terminated from outside.
Running == "running"
UncaughtException == "uncaught exception"
Killed == "killed"

----------------------------------------------------------------------------
\* Initial state: no process is running; the previous phase has been
\* completed for every repository, so every manifest carries its identifier
\* and no publish state is persisted.

\* The kinds of repository of the model: dependency type, whether the
\* directory is present on this machine, and the triggers declared by the
\* workflows under .github/workflows/.
RepositoryKinds ==
    {[dependencyType |-> "external", directoryExists |-> TRUE,
      hasPushWorkflow |-> TRUE, hasReleaseWorkflow |-> TRUE],
     [dependencyType |-> "external", directoryExists |-> FALSE,
      hasPushWorkflow |-> FALSE, hasReleaseWorkflow |-> FALSE],
     [dependencyType |-> "internal", directoryExists |-> FALSE,
      hasPushWorkflow |-> FALSE, hasReleaseWorkflow |-> FALSE],
     [dependencyType |-> "application", directoryExists |-> TRUE,
      hasPushWorkflow |-> FALSE, hasReleaseWorkflow |-> FALSE],
     [dependencyType |-> "helper", directoryExists |-> TRUE,
      hasPushWorkflow |-> TRUE, hasReleaseWorkflow |-> TRUE]}

\* The configuration after phase "alpha", or after phases "alpha" and "beta",
\* were completed for every repository (the version of a phase is recorded
\* for the repositories that others depend on).
CompletedPhases(stage) == IF stage = "alpha" THEN {"alpha"} ELSE {"alpha", "beta"}

InitialConfiguration(stage, repos) ==
    [publishState |-> NoPublishState,
     phaseStates |-> [r \in RepositoryNames |->
        [p \in Phases |->
            IF p \in CompletedPhases(stage) /\ (p = "alpha" \/ repos[r].directoryExists)
            THEN [dateTime |-> 1,
                  version |-> IF repos[r].dependencyType \in {"external", "internal"}
                              THEN FormatVersion(p) ELSE NoVersion]
            ELSE EmptyPhaseState]]]

\* No activation of #buildPublishState is followed in detail.
NotBuilding ==
    /\ buildInput = << >>
    /\ buildPc = "idle"
    /\ buildState = << >>
    /\ buildRepository = << >>
    /\ packageConfiguration = << >>
    /\ packageFile = << >>
    /\ commits = << >>
    /\ dependencyIndex = 0
    /\ buildFault = "none"

\* No call of anyChanges is modelled in detail.
NoCall ==
    /\ changeInput = << >>
    /\ changePc = "idle"
    /\ changedFilesSet = {}
    /\ committedCount = 0
    /\ records = << >>
    /\ anyChanges = Undefined
    /\ changeFault = "none"
    /\ mtimes = << >>

\* -1, the value of workflowRunID before a run is seen.
NoWorkflowRunID == -1

\* No call of #validateWorkflow is modelled in detail.
NoValidation ==
    /\ workflowInput = << >>
    /\ workflowRuns = << >>
    /\ workflowPc = "idle"
    /\ completed = FALSE
    /\ queryCount = 0
    /\ workflowRunID = NoWorkflowRunID
    /\ response = << >>
    /\ workflowFault = "none"

Init ==
    /\ NotBuilding
    /\ NoCall
    /\ NoValidation
    /\ repositories \in [RepositoryNames -> RepositoryKinds]
    /\ \E stage \in {"alpha", "beta"} :
        /\ manifest = [r \in RepositoryNames |-> FormatVersion(stage)]
        /\ configuration = InitialConfiguration(stage, repositories)
    /\ disk = saveConfigurationDocument(configuration)
    /\ pc = "stopped"
    /\ phase = "beta"
    /\ dryRun = FALSE
    /\ repositoryIndex = 1
    /\ repositoryPublishState = NoRepositoryPublishState
    /\ stepIndex = 0
    /\ cwd = StartDirectory
    /\ fault = FALSE
    /\ saved = NotSaved
    /\ exitStatus = "success"
    /\ resumedFrom = NoPublishState
    /\ attempted = << >>
    /\ executed = << >>
    /\ faulted = "none"
    /\ spawned = NotSpawned

----------------------------------------------------------------------------
\* The process: entry point and constructor.

\* new NonAlphaPublisher(phase, dryRun): the configuration is loaded; the
\* constructor throws if the persisted publish state names another phase, and
\* the exception, uncaught at the top level of the module, ends the process.
Start(p, d) ==
    /\ pc = "stopped"
    /\ LET loaded == loadConfiguration(disk)
           accepted == ConstructorAccepts(loaded.publishState, p)
       IN /\ configuration' =
                [loaded EXCEPT !.publishState = ConstructorPublishState(loaded.publishState, p)]
          /\ resumedFrom' = loaded.publishState
          /\ pc' = IF accepted THEN "loop" ELSE "stopped"
          /\ exitStatus' = IF accepted THEN Running ELSE UncaughtException
    /\ phase' = p
    /\ dryRun' = d
    /\ repositoryIndex' = 1
    /\ repositoryPublishState' = NoRepositoryPublishState
    /\ stepIndex' = 0
    /\ cwd' = StartDirectory
    /\ fault' = FALSE
    /\ saved' = NotSaved
    /\ attempted' = << >>
    /\ executed' = << >>
    /\ faulted' = "none"
    /\ UNCHANGED <<workflowVars, changeVars, buildVars, spawned, repositories, manifest, disk>>

\* The process is terminated from outside (signal, power loss): nothing runs
\* any more, not even the finally block, and all that was in memory is lost.
Kill ==
    /\ pc # "stopped"
    /\ pc' = "stopped"
    /\ exitStatus' = Killed
    /\ configuration' = loadConfiguration(disk)
    /\ repositoryIndex' = 1
    /\ repositoryPublishState' = NoRepositoryPublishState
    /\ stepIndex' = 0
    /\ cwd' = StartDirectory
    /\ fault' = FALSE
    /\ saved' = NotSaved
    /\ resumedFrom' = NoPublishState
    /\ attempted' = << >>
    /\ executed' = << >>
    /\ faulted' = "none"
    /\ phase' = "beta"
    /\ dryRun' = FALSE
    /\ spawned' = NotSpawned
    /\ UNCHANGED <<workflowVars, changeVars, buildVars, repositories, manifest, disk>>

----------------------------------------------------------------------------
\* publishAll: the loop over the repositories.

\* The loop body does nothing for a repository that the filter excludes.
RepositoryFiltered ==
    /\ pc = "loop"
    /\ repositoryIndex <= NumRepositories
    /\ ~ShouldProcess(configuration.publishState, repositoryIndex)
    /\ repositoryIndex' = repositoryIndex + 1
    /\ UNCHANGED <<workflowVars, changeVars, buildVars, spawned, repositories, manifest, disk, pc, phase, dryRun, configuration,
                   repositoryPublishState, stepIndex, cwd, fault, saved, exitStatus,
                   resumedFrom, attempted, executed, faulted>>

\* The repository's directory exists: its name is recorded and the process
\* changes into the directory.
RepositoryEnter ==
    /\ pc = "loop"
    /\ repositoryIndex <= NumRepositories
    /\ ShouldProcess(configuration.publishState, repositoryIndex)
    /\ repositories[repositoryIndex].directoryExists
    /\ configuration' = [configuration EXCEPT !.publishState.repositoryName = repositoryIndex]
    /\ cwd' = repositoryIndex
    /\ attempted' = Append(attempted, repositoryIndex)
    /\ pc' = "build"
    /\ UNCHANGED <<workflowVars, changeVars, buildVars, spawned, repositories, manifest, disk, phase, dryRun, repositoryIndex,
                   repositoryPublishState, stepIndex, fault, saved, exitStatus,
                   resumedFrom, executed, faulted>>

\* The directory is absent and the repository is not external: nothing is
\* done for it.  Its name has been recorded in the publish state by then and
\* nothing removes it.
RepositoryAbsent ==
    /\ pc = "loop"
    /\ repositoryIndex <= NumRepositories
    /\ ShouldProcess(configuration.publishState, repositoryIndex)
    /\ ~repositories[repositoryIndex].directoryExists
    /\ repositories[repositoryIndex].dependencyType # "external"
    /\ configuration' = [configuration EXCEPT !.publishState.repositoryName = repositoryIndex]
    /\ repositoryIndex' = repositoryIndex + 1
    /\ UNCHANGED <<workflowVars, changeVars, buildVars, spawned, repositories, manifest, disk, pc, phase, dryRun,
                   repositoryPublishState, stepIndex, cwd, fault, saved, exitStatus,
                   resumedFrom, attempted, executed, faulted>>

\* The directory of an external repository is absent: "Repository not found"
\* is thrown, caught by the catch of publishAll and logged; the process ends.
RepositoryNotFound ==
    /\ pc = "loop"
    /\ repositoryIndex <= NumRepositories
    /\ ShouldProcess(configuration.publishState, repositoryIndex)
    /\ ~repositories[repositoryIndex].directoryExists
    /\ repositories[repositoryIndex].dependencyType = "external"
    /\ configuration' = [configuration EXCEPT !.publishState.repositoryName = repositoryIndex]
    /\ faulted' = "not found"
    /\ pc' = "stopped"
    /\ exitStatus' = EntryPointExitStatus(PublishAllSettles(TRUE))
    /\ UNCHANGED <<workflowVars, changeVars, buildVars, spawned, repositories, manifest, disk, phase, dryRun, repositoryIndex,
                   repositoryPublishState, stepIndex, cwd, fault, saved,
                   resumedFrom, attempted, executed>>

\* (variant of FinishAll: the publish state is not deleted after the loop)
FinishAll_KeepsPublishState ==
    /\ pc = "loop"
    /\ repositoryIndex > NumRepositories
    /\ saved' = saveConfigurationDocument(configuration)
    /\ disk' = WrittenBySave(saved', dryRun, disk)
    /\ pc' = "stopped"
    /\ exitStatus' = EntryPointExitStatus(PublishAllSettles(FALSE))
    /\ UNCHANGED <<workflowVars, changeVars, buildVars, spawned, repositories, manifest, phase, dryRun, configuration, repositoryIndex,
                   repositoryPublishState, stepIndex, cwd, fault,
                   resumedFrom, attempted, executed, faulted>>

\* After the loop: the publish state is deleted from the configuration,
\* finalizeAll (empty) runs and the configuration is saved; the commit of the
\* shared configuration that follows changes nothing the model keeps, and an
\* exception it throws is caught and logged like any other.
FinishAll ==
    /\ pc = "loop"
    /\ repositoryIndex > NumRepositories
    /\ configuration' = [configuration EXCEPT !.publishState = NoPublishState]
    /\ saved' = saveConfigurationDocument(configuration')
    /\ disk' = WrittenBySave(saved', dryRun, disk)
    /\ pc' = "stopped"
    /\ exitStatus' = EntryPointExitStatus(PublishAllSettles(FALSE))
    /\ UNCHANGED <<workflowVars, changeVars, buildVars, spawned, repositories, manifest, phase, dryRun, repositoryIndex,
                   repositoryPublishState, stepIndex, cwd, fault,
                   resumedFrom, attempted, executed, faulted>>

----------------------------------------------------------------------------
\* #buildPublishState.

\* The publish state of the repository is built from its manifest.
BuildPublishState ==
    /\ pc = "build"
    /\ repositoryPublishState' =
            [repositoryName |-> repositoryIndex,
             preReleaseIdentifier |-> manifest[repositoryIndex][4],
             version |-> manifest[repositoryIndex]]
    /\ pc' = "publish"
    /\ UNCHANGED <<workflowVars, changeVars, buildVars, spawned, repositories, manifest, disk, phase, dryRun, configuration,
                   repositoryIndex, stepIndex, cwd, fault, saved, exitStatus,
                   resumedFrom, attempted, executed, faulted>>

\* Building the publish state throws (a command fails, the version or the
\* branch is invalid, a dependency has no recorded state).
BuildPublishStateFault ==
    /\ pc = "build"
    /\ fault' = TRUE
    /\ faulted' = "build"
    /\ pc' = "finally"
    /\ UNCHANGED <<workflowVars, changeVars, buildVars, spawned, repositories, manifest, disk, phase, dryRun, configuration,
                   repositoryIndex, repositoryPublishState, stepIndex, cwd, saved,
                   exitStatus, resumedFrom, attempted, executed>>

----------------------------------------------------------------------------
\* NonAlphaPublisher.publish, up to the first step.

PhaseDateTime(r, p) == configuration.phaseStates[r][p].dateTime

\* The pre-release identifier of the version of phase p.
PhaseIdentifier(p) == IF p # "prod" THEN p ELSE Null

\* The manifest carries the previous phase's identifier and nothing changed
\* since the previous phase was published: the version is moved to this phase
\* (updatePackageVersion saves the manifest), and recorded in the phase state
\* for a repository that others depend on.
PromotedPublishState ==
    [repositoryPublishState EXCEPT
        !.preReleaseIdentifier = PhaseIdentifier(phase),
        !.version = FormatVersion(PhaseIdentifier(phase))]

PromotedConfiguration ==
    IF repositories[repositoryIndex].dependencyType \in {"external", "internal"}
    THEN [configuration EXCEPT
            !.phaseStates[repositoryIndex][phase].version = FormatVersion(PhaseIdentifier(phase))]
    ELSE configuration

PublishPromote ==
    /\ pc = "publish"
    /\ repositoryPublishState.preReleaseIdentifier = PREVIOUS_PHASE[phase]
    /\ PhaseDateTime(repositoryIndex, PREVIOUS_PHASE[phase]) # NeverPublished
    /\ repositoryPublishState' = PromotedPublishState
    /\ manifest' = [manifest EXCEPT
            ![repositoryIndex] = WrittenBySavePackage(PromotedPublishState.version, dryRun, @)]
    /\ configuration' = PromotedConfiguration
    /\ stepIndex' = 1
    /\ pc' = "steps"
    /\ UNCHANGED <<workflowVars, changeVars, buildVars, spawned, repositories, disk, phase, dryRun, repositoryIndex, cwd, fault,
                   saved, exitStatus, resumedFrom, attempted, executed, faulted>>

\* As PublishPromote, but a command run after the version was moved (the
\* removal of the alpha registry, the reading of the workflows) throws.
PublishPromoteFault ==
    /\ pc = "publish"
    /\ repositoryPublishState.preReleaseIdentifier = PREVIOUS_PHASE[phase]
    /\ PhaseDateTime(repositoryIndex, PREVIOUS_PHASE[phase]) # NeverPublished
    /\ repositoryPublishState' = PromotedPublishState
    /\ manifest' = [manifest EXCEPT
            ![repositoryIndex] = WrittenBySavePackage(PromotedPublishState.version, dryRun, @)]
    /\ configuration' = PromotedConfiguration
    /\ fault' = TRUE
    /\ faulted' = "publish"
    /\ pc' = "finally"
    /\ UNCHANGED <<workflowVars, changeVars, buildVars, spawned, repositories, disk, phase, dryRun, repositoryIndex, stepIndex, cwd,
                   saved, exitStatus, resumedFrom, attempted, executed>>

\* (variant of PublishSkip: the date/time of the phase is recorded also when
\* the publication is skipped)
PublishSkip_Dated ==
    /\ pc = "publish"
    /\ repositoryPublishState.preReleaseIdentifier = phase
    /\ configuration.publishState.step = Undefined
    /\ PhaseDateTime(repositoryIndex, phase) # NeverPublished
    /\ PhaseDateTime(repositoryIndex, phase) < MaxClock
    /\ configuration' = [configuration EXCEPT
            !.phaseStates[repositoryIndex][phase].dateTime = @ + 1]
    /\ pc' = "published"
    /\ UNCHANGED <<workflowVars, changeVars, buildVars, spawned, repositories, manifest, disk, phase, dryRun,
                   repositoryIndex, repositoryPublishState, stepIndex, cwd, fault, saved,
                   exitStatus, resumedFrom, attempted, executed, faulted>>

\* The manifest carries this phase's identifier, no step is recorded and
\* nothing changed since this phase was published: nothing to do.
PublishSkip ==
    /\ pc = "publish"
    /\ repositoryPublishState.preReleaseIdentifier = phase
    /\ configuration.publishState.step = Undefined
    /\ PhaseDateTime(repositoryIndex, phase) # NeverPublished
    /\ pc' = "published"
    /\ UNCHANGED <<workflowVars, changeVars, buildVars, spawned, repositories, manifest, disk, phase, dryRun, configuration,
                   repositoryIndex, repositoryPublishState, stepIndex, cwd, fault, saved,
                   exitStatus, resumedFrom, attempted, executed, faulted>>

\* The manifest carries this phase's identifier and a step is recorded: the
\* publication resumes, changes are not looked for.
PublishResume ==
    /\ pc = "publish"
    /\ repositoryPublishState.preReleaseIdentifier = phase
    /\ configuration.publishState.step # Undefined
    /\ stepIndex' = 1
    /\ pc' = "steps"
    /\ UNCHANGED <<workflowVars, changeVars, buildVars, spawned, repositories, manifest, disk, phase, dryRun, configuration,
                   repositoryIndex, repositoryPublishState, cwd, fault, saved,
                   exitStatus, resumedFrom, attempted, executed, faulted>>

\* (variant of PublishChanged: the version is moved to this phase before
\* changes are looked for)
PublishChanged_AfterVersion ==
    /\ pc = "publish"
    /\ \/ repositoryPublishState.preReleaseIdentifier = PREVIOUS_PHASE[phase]
       \/ /\ repositoryPublishState.preReleaseIdentifier = phase
          /\ configuration.publishState.step = Undefined
    /\ repositoryPublishState' = PromotedPublishState
    /\ manifest' = [manifest EXCEPT
            ![repositoryIndex] = WrittenBySavePackage(PromotedPublishState.version, dryRun, @)]
    /\ configuration' = PromotedConfiguration
    /\ fault' = TRUE
    /\ faulted' = "publish"
    /\ pc' = "finally"
    /\ UNCHANGED <<workflowVars, changeVars, buildVars, spawned, repositories, disk, phase, dryRun, repositoryIndex, stepIndex, cwd,
                   saved, exitStatus, resumedFrom, attempted, executed>>

\* anyChanges reports a change (it always does for a phase never published)
\* or throws (remote drift, uncommitted changes), where publish() looks for
\* changes: publish() throws before it changed anything.
PublishChanged ==
    /\ pc = "publish"
    /\ \/ repositoryPublishState.preReleaseIdentifier = PREVIOUS_PHASE[phase]
       \/ /\ repositoryPublishState.preReleaseIdentifier = phase
          /\ configuration.publishState.step = Undefined
    /\ fault' = TRUE
    /\ faulted' = "publish"
    /\ pc' = "finally"
    /\ UNCHANGED <<workflowVars, changeVars, buildVars, spawned, repositories, manifest, disk, phase, dryRun, configuration,
                   repositoryIndex, repositoryPublishState, stepIndex, cwd, saved,
                   exitStatus, resumedFrom, attempted, executed>>

\* "Pre-release identifier must be either <previous phase> or <phase>".
PublishInvalidIdentifier ==
    /\ pc = "publish"
    /\ repositoryPublishState.preReleaseIdentifier # PREVIOUS_PHASE[phase]
    /\ repositoryPublishState.preReleaseIdentifier # phase
    /\ fault' = TRUE
    /\ faulted' = "publish"
    /\ pc' = "finally"
    /\ UNCHANGED <<workflowVars, changeVars, buildVars, spawned, repositories, manifest, disk, phase, dryRun, configuration,
                   repositoryIndex, repositoryPublishState, stepIndex, cwd, saved,
                   exitStatus, resumedFrom, attempted, executed>>

----------------------------------------------------------------------------
\* NonAlphaPublisher.publish: the steps, each through #runStep.

CurrentStep == StepOrder[stepIndex]

AtStep ==
    /\ pc = "steps"
    /\ stepIndex <= NumSteps

\* publish() does not call #runStep for this step at all.
StepOmitted ==
    /\ AtStep
    /\ ~StepIncluded(CurrentStep, repositories[repositoryIndex], phase, dryRun)
    /\ stepIndex' = stepIndex + 1
    /\ UNCHANGED <<workflowVars, changeVars, buildVars, spawned, repositories, manifest, disk, pc, phase, dryRun, configuration,
                   repositoryIndex, repositoryPublishState, cwd, fault, saved,
                   exitStatus, resumedFrom, attempted, executed, faulted>>

\* #runStep, else branch: another step is recorded, the action is not run.
StepSkipped ==
    /\ AtStep
    /\ StepIncluded(CurrentStep, repositories[repositoryIndex], phase, dryRun)
    /\ ~runStepRuns(configuration.publishState.step, CurrentStep)
    /\ stepIndex' = stepIndex + 1
    /\ UNCHANGED <<workflowVars, changeVars, buildVars, spawned, repositories, manifest, disk, pc, phase, dryRun, configuration,
                   repositoryIndex, repositoryPublishState, cwd, fault, saved,
                   exitStatus, resumedFrom, attempted, executed, faulted>>

\* (variant of StepBegin: the step is not recorded before the action starts)
StepBegin_WithoutRecording ==
    /\ AtStep
    /\ StepIncluded(CurrentStep, repositories[repositoryIndex], phase, dryRun)
    /\ runStepRuns(configuration.publishState.step, CurrentStep)
    /\ pc' = "inStep"
    /\ \E argv \in StepSpawns(CurrentStep, dryRun) : spawned' = argv
    /\ UNCHANGED <<workflowVars, changeVars, buildVars, repositories, manifest, disk, phase, dryRun, configuration, repositoryIndex,
                   repositoryPublishState, stepIndex, cwd, fault, saved, exitStatus,
                   resumedFrom, attempted, executed, faulted>>

\* #runStep, then branch up to the await: the step is recorded in the publish
\* state (in memory) and the action is started.
StepBegin ==
    /\ AtStep
    /\ StepIncluded(CurrentStep, repositories[repositoryIndex], phase, dryRun)
    /\ runStepRuns(configuration.publishState.step, CurrentStep)
    /\ configuration' = [configuration EXCEPT !.publishState.step = CurrentStep]
    /\ pc' = "inStep"
    /\ \E argv \in StepSpawns(CurrentStep, dryRun) : spawned' = argv
    /\ UNCHANGED <<workflowVars, changeVars, buildVars, repositories, manifest, disk, phase, dryRun, repositoryIndex,
                   repositoryPublishState, stepIndex, cwd, fault, saved, exitStatus,
                   resumedFrom, attempted, executed, faulted>>

\* The action returned: the step is deleted from the publish state.
StepSucceed ==
    /\ pc = "inStep"
    /\ configuration' = [configuration EXCEPT !.publishState.step = Undefined]
    /\ executed' = Append(executed, <<repositoryIndex, CurrentStep>>)
    /\ stepIndex' = stepIndex + 1
    /\ pc' = "steps"
    /\ spawned' = NotSpawned
    /\ UNCHANGED <<workflowVars, changeVars, buildVars, repositories, manifest, disk, phase, dryRun, repositoryIndex,
                   repositoryPublishState, cwd, fault, saved, exitStatus,
                   resumedFrom, attempted, faulted>>

\* (variant of StepFault: the step is deleted from the publish state also
\* when the action throws)
StepFault_ClearsStep ==
    /\ pc = "inStep"
    /\ StepCanFault(CurrentStep, dryRun)
    /\ configuration' = [configuration EXCEPT !.publishState.step = Undefined]
    /\ fault' = TRUE
    /\ faulted' = "step"
    /\ pc' = "finally"
    /\ spawned' = NotSpawned
    /\ UNCHANGED <<workflowVars, changeVars, buildVars, repositories, manifest, disk, phase, dryRun,
                   repositoryIndex, repositoryPublishState, stepIndex, cwd, saved,
                   exitStatus, resumedFrom, attempted, executed>>

\* The action threw: the exception leaves #runStep and publish().
StepFault ==
    /\ pc = "inStep"
    /\ StepCanFault(CurrentStep, dryRun)
    /\ fault' = TRUE
    /\ faulted' = "step"
    /\ pc' = "finally"
    /\ spawned' = NotSpawned
    /\ UNCHANGED <<workflowVars, changeVars, buildVars, repositories, manifest, disk, phase, dryRun, configuration,
                   repositoryIndex, repositoryPublishState, stepIndex, cwd, saved,
                   exitStatus, resumedFrom, attempted, executed>>

\* The latest date/time recorded in a configuration; new Date() is not
\* earlier than any of them.
RECURSIVE MaxOf(_)
MaxOf(S) ==
    IF S = {} THEN 0
    ELSE LET x == CHOOSE y \in S : TRUE
             m == MaxOf(S \ {x})
         IN IF x > m THEN x ELSE m

LatestDateTime(c) ==
    MaxOf({c.phaseStates[r][p].dateTime : r \in RepositoryNames, p \in Phases})

\* After the last step: updatePhaseState({dateTime: new Date()}).
PublishEnd ==
    /\ pc = "steps"
    /\ stepIndex > NumSteps
    /\ RoundUpDateTime(LatestDateTime(configuration)) <= MaxClock
    /\ configuration' = [configuration EXCEPT
            !.phaseStates[repositoryIndex][phase].dateTime =
                RoundUpDateTime(LatestDateTime(configuration))]
    /\ pc' = "published"
    /\ UNCHANGED <<workflowVars, changeVars, buildVars, spawned, repositories, manifest, disk, phase, dryRun, repositoryIndex,
                   repositoryPublishState, stepIndex, cwd, fault, saved, exitStatus,
                   resumedFrom, attempted, executed, faulted>>

----------------------------------------------------------------------------
\* publishAll: after publish(), and the finally block.

\* publish() returned: the repository name and the step are deleted from the
\* publish state; then the finally block returns to the start directory and
\* saves the configuration, and the loop goes on.
RepositoryDone ==
    /\ pc = "published"
    /\ configuration' = [configuration EXCEPT
            !.publishState.repositoryName = NoRepository,
            !.publishState.step = Undefined]
    /\ cwd' = StartDirectory
    /\ saved' = saveConfigurationDocument(configuration')
    /\ disk' = WrittenBySave(saved', dryRun, disk)
    /\ repositoryIndex' = repositoryIndex + 1
    /\ pc' = "loop"
    /\ UNCHANGED <<workflowVars, changeVars, buildVars, spawned, repositories, manifest, phase, dryRun, repositoryPublishState,
                   stepIndex, fault, exitStatus, resumedFrom, attempted, executed, faulted>>

\* (variant of RepositoryFaulted: no finally block, the exception goes
\* straight to the catch of publishAll)
RepositoryFaulted_WithoutFinally ==
    /\ pc = "finally"
    /\ pc' = "stopped"
    /\ exitStatus' = EntryPointExitStatus(PublishAllSettles(fault))
    /\ UNCHANGED <<workflowVars, changeVars, buildVars, spawned, repositories, manifest, disk, phase, dryRun, configuration,
                   repositoryIndex, repositoryPublishState, stepIndex, cwd, fault, saved,
                   resumedFrom, attempted, executed, faulted>>

\* #buildPublishState or publish() threw: the finally block returns to the
\* start directory and saves the configuration; the exception then reaches the
\* catch of publishAll, which logs it, and the process ends.
RepositoryFaulted ==
    /\ pc = "finally"
    /\ cwd' = StartDirectory
    /\ saved' = saveConfigurationDocument(configuration)
    /\ disk' = WrittenBySave(saved', dryRun, disk)
    /\ pc' = "stopped"
    /\ exitStatus' = EntryPointExitStatus(PublishAllSettles(fault))
    /\ UNCHANGED <<workflowVars, changeVars, buildVars, spawned, repositories, manifest, phase, dryRun, configuration,
                   repositoryIndex, repositoryPublishState, stepIndex, fault,
                   resumedFrom, attempted, executed, faulted>>

----------------------------------------------------------------------------
Next ==
    \/ \E p \in NonAlphaPhases, d \in BOOLEAN : Start(p, d)
    \/ Kill
    \/ RepositoryFiltered
    \/ RepositoryEnter
    \/ RepositoryAbsent
    \/ RepositoryNotFound
    \/ FinishAll
    \/ BuildPublishState
    \/ BuildPublishStateFault
    \/ PublishPromote
    \/ PublishPromoteFault
    \/ PublishSkip
    \/ PublishResume
    \/ PublishChanged
    \/ PublishInvalidIdentifier
    \/ StepOmitted
    \/ StepSkipped
    \/ StepBegin
    \/ StepSucceed
    \/ StepFault
    \/ PublishEnd
    \/ RepositoryDone
    \/ RepositoryFaulted

Spec == Init /\ [][Next]_vars

----------------------------------------------------------------------------
\* #buildPublishState in detail: strings, versions, branches, date/times.
\* Strings are sequences of tokens (a number in decimal notation is one
\* token); date/times are in milliseconds, NeverPublished if undefined.

MaxPatch == 1
MaxRecords == 2
MaxRuns == 2
MaxQueryCount == 11

Numbers == 0..(MaxMajor + MaxMinor + MaxPatch)

\* The strings of digits that stand for n: its decimal representation, also
\* with a leading zero.
NumberStrings(n) == {ToString(n), "0" \o ToString(n)}

\* \d+
IsNumberString(token) == \E n \in Numbers : token \in NumberStrings(n)

\* Number(string) of a string that matched \d+.
Number(token) == CHOOSE n \in Numbers : token \in NumberStrings(n)

\* updatePackageVersion: `${major}.${minor}.${patch}` and, if the pre-release
\* identifier is not null, `-${preReleaseIdentifier}`.
formatVersion(majorVersion, minorVersion, patchVersion, preReleaseIdentifier) ==
    <<ToString(majorVersion), ".", ToString(minorVersion), ".", ToString(patchVersion)>>
        \o (IF preReleaseIdentifier # Null THEN <<"-", preReleaseIdentifier>> ELSE << >>)

\* The regular expression of #buildPublishState for the package version:
\* MAJOR.MINOR.PATCH, optionally followed by -alpha or -beta.
IsVersionString(version) ==
    /\ Len(version) \in {5, 7}
    /\ IsNumberString(version[1]) /\ version[2] = "."
    /\ IsNumberString(version[3]) /\ version[4] = "."
    /\ IsNumberString(version[5])
    /\ Len(version) = 7 => (version[6] = "-" /\ version[7] \in {"alpha", "beta"})

parsedVersionGroups(version) ==
    [majorVersion |-> Number(version[1]),
     minorVersion |-> Number(version[3]),
     patchVersion |-> Number(version[5]),
     preReleaseIdentifier |-> IF Len(version) = 7 THEN version[7] ELSE Null]

\* `${majorVersion}.${minorVersion}` and `v${majorVersion}.${minorVersion}`.
MajorMinor(majorVersion, minorVersion) ==
    <<ToString(majorVersion), ".", ToString(minorVersion)>>

BranchName(majorVersion, minorVersion) == <<"v">> \o MajorMinor(majorVersion, minorVersion)

MainBranch == <<"main">>

\* The regular expression of #buildPublishState for a version branch: the
\* name starts with vMAJOR.MINOR.
IsVersionBranch(branch) ==
    /\ Len(branch) >= 4
    /\ branch[1] = "v"
    /\ IsNumberString(branch[2]) /\ branch[3] = "."
    /\ IsNumberString(branch[4])

parsedBranchGroups(branch) ==
    [branchMajorVersion |-> Number(branch[2]), branchMinorVersion |-> Number(branch[4])]

\* The branch whose version is compared with the package version: a helper
\* repository is taken to be on the branch of the latest version.
VersionBranchOf(dependencyType, branch, latestVersion) ==
    IF dependencyType # "helper" THEN branch ELSE <<"v">> \o latestVersion

\* (variant of isValidBranch: any branch is valid in every phase)
isValidBranch_Any(p, dependencyType, branch, majorVersion, minorVersion) == TRUE

\* isValidBranch: AlphaPublisher accepts any branch; NonAlphaPublisher accepts
\* a helper repository on any branch and any other repository on the branch
\* of its package version.
isValidBranch(p, dependencyType, branch, majorVersion, minorVersion) ==
    \/ p = "alpha"
    \/ dependencyType = "helper"
    \/ branch = BranchName(majorVersion, minorVersion)

\* (variant of IsInvalidTransition: no transition is refused)
IsInvalidTransition_Never(majorVersion, minorVersion, branchMajorVersion, branchMinorVersion) ==
    FALSE

\* #buildPublishState: the test that throws "Invalid transition from ... to
\* ..." when the package version differs from the branch version.
IsInvalidTransition(majorVersion, minorVersion, branchMajorVersion, branchMinorVersion) ==
    IF majorVersion # branchMajorVersion
    THEN majorVersion # branchMajorVersion - 1
    ELSE minorVersion # branchMinorVersion - 1

\* latestDateTime: the latest of the defined date/times, the initial one on
\* ties, undefined if all are undefined.
RECURSIVE latestDateTime(_, _)
latestDateTime(initialDateTime, additionalDateTimes) ==
    IF additionalDateTimes = << >> THEN initialDateTime
    ELSE LET dateTime == Head(additionalDateTimes)
             latest == IF /\ dateTime # NeverPublished
                          /\ (initialDateTime = NeverPublished \/ initialDateTime < dateTime)
                       THEN dateTime ELSE initialDateTime
         IN latestDateTime(latest, Tail(additionalDateTimes))

\* getPhaseDateTime: the alpha publisher takes the later phases into account,
\* the beta publisher the production phase; no phase follows production.
getPhaseDateTime(p, phaseStates, phaseDateTime) ==
    CASE p = "alpha" ->
            latestDateTime(phaseDateTime,
                           <<phaseStates["beta"].dateTime, phaseStates["prod"].dateTime>>)
      [] p = "beta" -> latestDateTime(phaseDateTime, <<phaseStates["prod"].dateTime>>)
      [] OTHER -> latestDateTime(phaseDateTime, << >>)

Organization == "acme"

\* `@${organization}`.
AtOrganization == "@acme"

\* getPackageName; a package name is the sequence of its parts between "/".
getPackageName(repositoryName) == <<AtOrganization, repositoryName>>

\* dependencyRepositoryName: the repository of a package of the organization,
\* null for any other package.
dependencyRepositoryName(dependency) ==
    IF Len(dependency) = 2 /\ dependency[1] = AtOrganization THEN dependency[2] ELSE Null

\* #isOrganizationDependencyUpdated: the error it throws, "none" if none.
OrganizationDependencyFault(p, dependencyRepository) ==
    IF ~dependencyRepository.phaseStates[p].defined THEN "no phase state"
    ELSE IF getPhaseDateTime(p, dependencyRepository.phaseStates,
                             dependencyRepository.phaseStates[p].dateTime) = NeverPublished
         THEN "no phase date/time"
         ELSE "none"

\* (variant of isOrganizationDependencyUpdated: a dependency published at the
\* same instant counts as updated)
isOrganizationDependencyUpdated_OrEqual(phaseDateTime, p, dependencyRepository) ==
    \/ phaseDateTime = NeverPublished
    \/ phaseDateTime <= getPhaseDateTime(p, dependencyRepository.phaseStates,
                                         dependencyRepository.phaseStates[p].dateTime)

\* #isOrganizationDependencyUpdated: the value it returns.
isOrganizationDependencyUpdated(phaseDateTime, p, dependencyRepository) ==
    \/ phaseDateTime = NeverPublished
    \/ phaseDateTime < getPhaseDateTime(p, dependencyRepository.phaseStates,
                                        dependencyRepository.phaseStates[p].dateTime)

\* (variant of DependencyVersionFault: a missing version and an unexpected
\* dependency type are let through)
DependencyVersionFault_None(p, dependencyRepository) == "none"

\* dependencyVersionFor: the error it throws, "none" if none.
DependencyVersionFault(p, dependencyRepository) ==
    IF dependencyRepository.phaseStates[p].version = NoVersion THEN "version not set"
    ELSE IF p # "alpha" /\ dependencyRepository.dependencyType \notin {"external", "internal"}
         THEN "invalid dependency type"
         ELSE "none"

\* (variant of AlphaPublisher_dependencyVersionFor: the dependency version is
\* always "alpha")
AlphaPublisher_dependencyVersionFor_Tag(dependencyRepository) == <<"alpha">>

\* AlphaPublisher.dependencyVersionFor: the version recorded for the alpha
\* phase.
AlphaPublisher_dependencyVersionFor(dependencyRepository) ==
    dependencyRepository.phaseStates["alpha"].version

\* (variant of dependencyVersionFor: the production phase locks the version
\* of an external dependency like the beta phase)
dependencyVersionFor_Locked(p, repositoryName, dependencyRepository) ==
    LET phaseStateVersion == dependencyRepository.phaseStates[p].version
    IN IF p = "alpha" \/ dependencyRepository.dependencyType = "external"
       THEN phaseStateVersion
       ELSE <<Organization, "/", repositoryName, "#", "v">> \o phaseStateVersion

\* dependencyVersionFor: AlphaPublisher returns the version recorded for the
\* alpha phase; NonAlphaPublisher the recorded version, preceded by ^ in
\* production, for an external dependency and organization/name#vVERSION for
\* an internal one.
dependencyVersionFor(p, repositoryName, dependencyRepository) ==
    LET phaseStateVersion == dependencyRepository.phaseStates[p].version
    IN IF p = "alpha" THEN AlphaPublisher_dependencyVersionFor(dependencyRepository)
       ELSE IF dependencyRepository.dependencyType = "external"
            THEN (IF p # "prod" THEN phaseStateVersion ELSE <<"^">> \o phaseStateVersion)
            ELSE <<Organization, "/", repositoryName, "#", "v">> \o phaseStateVersion

\* (variant of updatePhaseStateDateTime: the date/time is stored as given)
updatePhaseStateDateTime_Raw(dateTime) == dateTime

\* updatePhaseState: the date/time without its milliseconds plus one second.
updatePhaseStateDateTime(dateTime) == dateTime - (dateTime % 1000) + 1000

\* {...a, ...b}: the properties of a, replaced or followed by those of b.
Spread(a, b) ==
    [property \in DOMAIN a \cup DOMAIN b |-> IF property \in DOMAIN b THEN b[property]
                                                                        ELSE a[property]]

\* updatePhaseState: the rounded date/time if the partial phase state has a
\* date/time, no property otherwise.
phaseStateDateTime(phaseState) ==
    IF "dateTime" \in DOMAIN phaseState
    THEN [dateTime |-> updatePhaseStateDateTime(phaseState.dateTime)]
    ELSE << >>

\* (variant of updatePhaseState: the properties that the partial phase state
\* lacks are not carried over)
updatePhaseState_Replaced(state, phaseState) ==
    [state EXCEPT
        !.phaseState = Spread(Spread([defined |-> TRUE, dateTime |-> NeverPublished,
                                      version |-> NoVersion], phaseState),
                              phaseStateDateTime(phaseState)),
        !.phaseDateTime = IF "dateTime" \in DOMAIN phaseStateDateTime(phaseState)
                          THEN phaseStateDateTime(phaseState).dateTime ELSE @]

\* updatePhaseState on the repository publish state: the phase state is
\* replaced by its properties overridden by those of the partial phase state
\* and by the rounded date/time; the phase date/time is replaced only if a
\* date/time is given. (The caller stores the same phase state in
\* repository.phaseStates[phase].)
updatePhaseState(state, phaseState) ==
    [state EXCEPT
        !.phaseState = Spread(Spread(@, phaseState), phaseStateDateTime(phaseState)),
        !.phaseDateTime = IF "dateTime" \in DOMAIN phaseStateDateTime(phaseState)
                          THEN phaseStateDateTime(phaseState).dateTime ELSE @]

\* (variant of updatePackageVersion: the fields without an override are reset)
updatePackageVersion_Reset(state, overrides) ==
    Spread([state EXCEPT !.majorVersion = 0, !.minorVersion = 0, !.patchVersion = 0,
                         !.preReleaseIdentifier = Null],
           overrides)

\* updatePackageVersion(majorVersion, minorVersion, patchVersion,
\* preReleaseIdentifier) on the repository publish state: each field is
\* assigned only if its argument is not undefined. The arguments that are
\* not undefined are the fields of overrides.
updatePackageVersion(state, overrides) == Spread(state, overrides)

\* The version that updatePackageVersion puts in the package configuration
\* and returns.
PackageVersion(state) ==
    formatVersion(state.majorVersion, state.minorVersion, state.patchVersion,
                  state.preReleaseIdentifier)


----------------------------------------------------------------------------
\* #buildPublishState in detail: the inputs of one activation.

\* A phase state of the detailed model; defined = FALSE stands for the phase
\* having no entry in phaseStates.
UndefinedPhaseState == [defined |-> FALSE, dateTime |-> NeverPublished, version |-> NoVersion]

DateTimes == {second * 1000 : second \in 1..MaxSecond}

\* The phase that follows a phase, null after production.
NextPhase == [alpha |-> "beta", beta |-> "prod", prod |-> Null]

\* Phase states with a given state for phase p and a given date/time for the
\* phase that follows it.
PhaseStateOf(q, p, phaseState, nextDateTime) ==
    IF q = p THEN phaseState
    ELSE IF q = NextPhase[p] /\ nextDateTime # NeverPublished
         THEN [defined |-> TRUE, dateTime |-> nextDateTime, version |-> NoVersion]
         ELSE UndefinedPhaseState

PhaseStatesOf(p, phaseState, nextDateTime) ==
    [alpha |-> PhaseStateOf("alpha", p, phaseState, nextDateTime),
     beta |-> PhaseStateOf("beta", p, phaseState, nextDateTime),
     prod |-> PhaseStateOf("prod", p, phaseState, nextDateTime)]

VersionStrings ==
    {formatVersion(major, minor, patch, identifier) :
        major \in 1..MaxMajor, minor \in 0..MaxMinor, patch \in 0..MaxPatch,
        identifier \in {"alpha", "beta", Null}}
    \cup {<<"1", ".", "0">>, <<"1", ".", "02", ".", "0", "-", "beta">>}

Branches ==
    {MainBranch} \cup {BranchName(major, minor) : major \in 1..MaxMajor, minor \in 0..MaxMinor}

LatestVersions == {MajorMinor(major, minor) : major \in 1..MaxMajor, minor \in 0..MaxMinor}

\* The version a dependency repository has recorded, and the entry a package
\* has for a dependency before it is rewritten.
RecordedVersions(p) ==
    {formatVersion(1, 0, patch, IF p # "prod" THEN p ELSE Null) : patch \in 0..MaxPatch}

DeclaredVersion == <<"*">>

\* The repositories that the repository under construction depends on:
\* "core" through its package.json, "tools" as an additional dependency.
DependencyPhaseStates(p) ==
    {UndefinedPhaseState} \cup
    {[defined |-> TRUE, dateTime |-> dateTime, version |-> version] :
        dateTime \in {NeverPublished} \cup DateTimes,
        version \in {NoVersion} \cup RecordedVersions(p)}

NextDateTimes(p) == IF p = "prod" THEN {NeverPublished} ELSE {NeverPublished, MaxSecond * 1000}

CoreRepositories(p, workingVersion) ==
    {[dependencyType |-> dependencyType,
      workingVersion |-> dependencyWorkingVersion,
      phaseStates |-> PhaseStatesOf(p, phaseState, nextDateTime)] :
        dependencyType \in DependencyTypes,
        dependencyWorkingVersion \in {workingVersion, << >>},
        phaseState \in DependencyPhaseStates(p),
        nextDateTime \in NextDateTimes(p)}

ToolsRepository(p, dateTime) ==
    [dependencyType |-> "helper",
     workingVersion |-> << >>,
     phaseStates |-> PhaseStatesOf(p, [defined |-> TRUE, dateTime |-> dateTime,
                                       version |-> NoVersion], NeverPublished)]

\* "tools" with the additional dependencies of the repository: on it or none.
AdditionalInputs(p) ==
    {[tools |-> ToolsRepository(p, dateTime), additionalDependencies |-> <<"tools">>] :
        dateTime \in {NeverPublished} \cup DateTimes}
    \cup {[tools |-> ToolsRepository(p, NeverPublished), additionalDependencies |-> << >>]}

\* The phase states of the repository under construction.
OwnPhaseStates(p) ==
    {PhaseStatesOf(p, phaseState, NeverPublished) :
        phaseState \in {UndefinedPhaseState} \cup
            {[defined |-> TRUE, dateTime |-> dateTime, version |-> NoVersion] :
                dateTime \in DateTimes}}

NoDependencies == [devDependencies |-> << >>, dependencies |-> << >>]

\* package.json sections in which the package of "core" is declared as a
\* development or as a runtime dependency, next to a package of another
\* organization.
DeclaredDependencies ==
    {[devDependencies |-> <<[name |-> getPackageName("core"), version |-> DeclaredVersion]>>,
      dependencies |-> <<[name |-> <<"lodash">>, version |-> DeclaredVersion]>>],
     [devDependencies |-> <<[name |-> <<"@types", "node">>, version |-> DeclaredVersion]>>,
      dependencies |-> <<[name |-> getPackageName("core"), version |-> DeclaredVersion]>>]}

\* Inputs that vary the package version and the branch (for a helper
\* repository the latest version, which stands for its branch); the package
\* declares no dependency.
VersionInput(p, d, dependencyType, branch, latestVersion, version) ==
    [phase |-> p, dryRun |-> d, dependencyType |-> dependencyType, branch |-> branch,
     latestVersion |-> latestVersion, version |-> version,
     phaseStates |-> PhaseStatesOf(p, UndefinedPhaseState, NeverPublished),
     declared |-> NoDependencies, additionalDependencies |-> << >>,
     repositories |-> [core |-> ToolsRepository(p, NeverPublished),
                       tools |-> ToolsRepository(p, NeverPublished)]]

\* An input that varies the dependencies and the date/times; the package is
\* at version 1.1.1 of the alpha phase, on its own version branch or on
\* the next one.
DependencyInput(p, d, branch, phaseStates, declared, additional, core) ==
    [phase |-> p, dryRun |-> d, dependencyType |-> "external", branch |-> branch,
     latestVersion |-> MajorMinor(MaxMajor, MaxMinor),
     version |-> formatVersion(1, 1, 1, "alpha"),
     phaseStates |-> phaseStates,
     declared |-> declared,
     additionalDependencies |-> additional.additionalDependencies,
     repositories |-> [core |-> core, tools |-> additional.tools]]

DependencyBranches == {BranchName(1, 1), BranchName(1, 2)}

----------------------------------------------------------------------------
\* #buildPublishState in detail: the activation, step by step, and the
\* updatePhaseState that publish() ends with.

\* The main model's process does not exist.
NoProcess ==
    /\ repositories = << >>
    /\ manifest = << >>
    /\ disk = NotSaved
    /\ pc = "stopped"
    /\ phase = "beta"
    /\ dryRun = FALSE
    /\ configuration = << >>
    /\ repositoryIndex = 1
    /\ repositoryPublishState = NoRepositoryPublishState
    /\ stepIndex = 0
    /\ cwd = StartDirectory
    /\ fault = FALSE
    /\ saved = NotSaved
    /\ exitStatus = "success"
    /\ resumedFrom = NoPublishState
    /\ attempted = << >>
    /\ executed = << >>
    /\ faulted = "none"
    /\ spawned = NotSpawned

BuildInit ==
    /\ NoProcess
    /\ NoCall
    /\ NoValidation
    /\ \/ \E p \in Phases, d \in BOOLEAN, branch \in Branches, version \in VersionStrings,
             dependencyType \in DependencyTypes \ {"helper"} :
            buildInput = VersionInput(p, d, dependencyType, branch,
                                      MajorMinor(MaxMajor, MaxMinor), version)
       \/ \E p \in Phases, d \in BOOLEAN, latestVersion \in LatestVersions,
             version \in VersionStrings :
            buildInput = VersionInput(p, d, "helper", MainBranch, latestVersion, version)
       \/ \E p \in Phases, d \in BOOLEAN, branch \in DependencyBranches :
            \E phaseStates \in OwnPhaseStates(p), declared \in DeclaredDependencies,
               additional \in AdditionalInputs(p), core \in CoreRepositories(p, MajorMinor(1, 1)) :
                buildInput = DependencyInput(p, d, branch, phaseStates, declared,
                                             additional, core)
    /\ buildPc = "parse"
    /\ buildState = << >>
    /\ buildRepository =
            [dependencyType |-> buildInput.dependencyType,
             workingVersion |-> << >>,
             phaseStates |-> buildInput.phaseStates,
             additionalDependencies |-> buildInput.additionalDependencies]
    /\ packageConfiguration = << >>
    /\ packageFile =
            [version |-> buildInput.version,
             devDependencies |-> buildInput.declared.devDependencies,
             dependencies |-> buildInput.declared.dependencies]
    /\ commits = << >>
    /\ dependencyIndex = 0
    /\ buildFault = "none"

\* The phase state of the repository, created if it has none.
BuildPhaseState ==
    LET phaseState == buildRepository.phaseStates[buildInput.phase]
    IN IF phaseState.defined THEN phaseState
       ELSE [defined |-> TRUE, dateTime |-> NeverPublished, version |-> NoVersion]

\* package.json does not carry a version of the expected form.
BuildInvalidVersion ==
    /\ buildPc = "parse"
    /\ ~IsVersionString(packageFile.version)
    /\ buildRepository' = [buildRepository EXCEPT !.phaseStates[buildInput.phase] = BuildPhaseState]
    /\ packageConfiguration' = packageFile
    /\ buildFault' = "invalid version"
    /\ buildPc' = "fault"
    /\ UNCHANGED <<workflowVars, changeVars, mainVars, buildInput, buildState, packageFile, commits, dependencyIndex>>

\* The phase state is created if necessary, the phase date/time resolved,
\* package.json read and its version parsed: #repositoryPublishState is set.
BuildParse ==
    /\ buildPc = "parse"
    /\ IsVersionString(packageFile.version)
    /\ buildRepository' = [buildRepository EXCEPT !.phaseStates[buildInput.phase] = BuildPhaseState]
    /\ packageConfiguration' = packageFile
    /\ buildState' =
            [phaseState |-> BuildPhaseState,
             phaseDateTime |-> getPhaseDateTime(buildInput.phase, buildRepository.phaseStates,
                                                BuildPhaseState.dateTime),
             branch |-> buildInput.branch,
             majorVersion |-> parsedVersionGroups(packageFile.version).majorVersion,
             minorVersion |-> parsedVersionGroups(packageFile.version).minorVersion,
             patchVersion |-> parsedVersionGroups(packageFile.version).patchVersion,
             preReleaseIdentifier |-> parsedVersionGroups(packageFile.version).preReleaseIdentifier,
             savePackageConfigurationPending |-> FALSE,
             anyDependenciesUpdated |-> FALSE]
    /\ buildPc' = "branch"
    /\ UNCHANGED <<workflowVars, changeVars, mainVars, buildInput, packageFile, commits, dependencyIndex, buildFault>>

\* The branch is not valid for the phase.
BuildInvalidBranch ==
    /\ buildPc = "branch"
    /\ ~isValidBranch(buildInput.phase, buildRepository.dependencyType, buildState.branch,
                      buildState.majorVersion, buildState.minorVersion)
    /\ buildFault' = "invalid branch"
    /\ buildPc' = "fault"
    /\ UNCHANGED <<workflowVars, changeVars, mainVars, buildInput, buildState, buildRepository, packageConfiguration,
                   packageFile, commits, dependencyIndex>>

\* The branch whose version the package version is compared with, that it
\* is a version branch that differs from the package version, and its version.
VersionBranch ==
    VersionBranchOf(buildRepository.dependencyType, buildState.branch, buildInput.latestVersion)

BranchDiffers ==
    /\ IsVersionBranch(VersionBranch)
    /\ \/ buildState.majorVersion # parsedBranchGroups(VersionBranch).branchMajorVersion
       \/ buildState.minorVersion # parsedBranchGroups(VersionBranch).branchMinorVersion

BranchIsValid ==
    /\ buildPc = "branch"
    /\ isValidBranch(buildInput.phase, buildRepository.dependencyType, buildState.branch,
                     buildState.majorVersion, buildState.minorVersion)

\* repository.workingVersion is set from the major and minor version parsed
\* from package.json, and the loop over the declared dependencies begins.
BeginDependencies ==
    /\ buildRepository' = [buildRepository EXCEPT
            !.workingVersion = MajorMinor(buildState.majorVersion, buildState.minorVersion)]
    /\ dependencyIndex' = 1
    /\ buildPc' = "dependencies"

\* The branch is valid and is no version branch, or the package version is
\* the branch's: the version is kept.
BuildVersionKept ==
    /\ BranchIsValid
    /\ ~BranchDiffers
    /\ BeginDependencies
    /\ UNCHANGED <<workflowVars, changeVars, mainVars, buildInput, buildState, packageConfiguration, packageFile,
                   commits, buildFault>>

\* The package version is not one step behind the version of the branch.
BuildInvalidTransition ==
    /\ BranchIsValid
    /\ BranchDiffers
    /\ IsInvalidTransition(buildState.majorVersion, buildState.minorVersion,
                           parsedBranchGroups(VersionBranch).branchMajorVersion,
                           parsedBranchGroups(VersionBranch).branchMinorVersion)
    /\ buildFault' = "invalid transition"
    /\ buildPc' = "fault"
    /\ UNCHANGED <<workflowVars, changeVars, mainVars, buildInput, buildState, buildRepository, packageConfiguration,
                   packageFile, commits, dependencyIndex>>

\* (variant of BranchVersion: the pre-release identifier is not cleared)
BranchVersion_Alpha(branchMajorVersion, branchMinorVersion) ==
    [majorVersion |-> branchMajorVersion, minorVersion |-> branchMinorVersion,
     patchVersion |-> 0, preReleaseIdentifier |-> "alpha"]

\* The version that the package gets on a version branch one step ahead:
\* the arguments of updatePackageVersion(branchMajorVersion,
\* branchMinorVersion, 0, null).
BranchVersion(branchMajorVersion, branchMinorVersion) ==
    [majorVersion |-> branchMajorVersion, minorVersion |-> branchMinorVersion,
     patchVersion |-> 0, preReleaseIdentifier |-> Null]

\* The package version is one step behind the version of the branch:
\* updatePackageVersion(branch major, branch minor, 0, null) sets the version
\* and saves package.json, and commitUpdatedPackageVersion commits the file
\* if git reports it modified.
BuildVersionUpdated ==
    /\ BranchIsValid
    /\ BranchDiffers
    /\ ~IsInvalidTransition(buildState.majorVersion, buildState.minorVersion,
                            parsedBranchGroups(VersionBranch).branchMajorVersion,
                            parsedBranchGroups(VersionBranch).branchMinorVersion)
    /\ LET version == BranchVersion(parsedBranchGroups(VersionBranch).branchMajorVersion,
                                     parsedBranchGroups(VersionBranch).branchMinorVersion)
       IN /\ buildState' = [buildState EXCEPT
                    !.majorVersion = version.majorVersion,
                    !.minorVersion = version.minorVersion,
                    !.patchVersion = version.patchVersion,
                    !.preReleaseIdentifier = version.preReleaseIdentifier,
                    !.savePackageConfigurationPending = FALSE]
          /\ packageConfiguration' = [packageConfiguration EXCEPT
                    !.version = formatVersion(version.majorVersion, version.minorVersion,
                                              version.patchVersion, version.preReleaseIdentifier)]
    /\ packageFile' = WrittenBySavePackage(packageConfiguration', buildInput.dryRun, packageFile)
    /\ commits' = IF packageFile' # packageFile /\ ~buildInput.dryRun
                  THEN Append(commits, packageFile'.version) ELSE commits
    /\ BeginDependencies
    /\ UNCHANGED <<workflowVars, changeVars, mainVars, buildInput, buildFault>>

\* The entries of devDependencies followed by those of dependencies, the
\* order in which #buildPublishState goes through them.
DeclaredEntries(package) == package.devDependencies \o package.dependencies

\* dependencies[dependencyPackageName] = version, for the entry at position k.
WithEntryVersion(package, k, version) ==
    IF k <= Len(package.devDependencies)
    THEN [package EXCEPT !.devDependencies[k].version = version]
    ELSE [package EXCEPT !.dependencies[k - Len(package.devDependencies)].version = version]

AtDependency ==
    /\ buildPc = "dependencies"
    /\ dependencyIndex <= Len(DeclaredEntries(packageConfiguration))

CurrentDependency == dependencyRepositoryName(DeclaredEntries(packageConfiguration)[dependencyIndex].name)

\* The entry is a package of the organization whose repository has the
\* working version of this repository.
IsOrganizationDependency ==
    IF CurrentDependency = Null THEN FALSE
    ELSE buildInput.repositories[CurrentDependency].workingVersion = buildRepository.workingVersion

\* The error thrown for the entry, "none" if none: by
\* #isOrganizationDependencyUpdated or, the dependency being updated, by
\* dependencyVersionFor.
CurrentDependencyFault ==
    LET dependencyRepository == buildInput.repositories[CurrentDependency]
    IN IF OrganizationDependencyFault(buildInput.phase, dependencyRepository) # "none"
       THEN OrganizationDependencyFault(buildInput.phase, dependencyRepository)
       ELSE IF isOrganizationDependencyUpdated(buildState.phaseDateTime, buildInput.phase,
                                               dependencyRepository)
            THEN DependencyVersionFault(buildInput.phase, dependencyRepository)
            ELSE "none"

\* The entry is of another organization or of another working version.
BuildDependencyIgnored ==
    /\ AtDependency
    /\ ~IsOrganizationDependency
    /\ dependencyIndex' = dependencyIndex + 1
    /\ UNCHANGED <<workflowVars, changeVars, mainVars, buildInput, buildPc, buildState, buildRepository,
                   packageConfiguration, packageFile, commits, buildFault>>

BuildDependencyFault ==
    /\ AtDependency
    /\ IsOrganizationDependency
    /\ CurrentDependencyFault # "none"
    /\ buildFault' = CurrentDependencyFault
    /\ buildPc' = "fault"
    /\ UNCHANGED <<workflowVars, changeVars, mainVars, buildInput, buildState, buildRepository, packageConfiguration,
                   packageFile, commits, dependencyIndex>>

BuildDependencyUnchanged ==
    /\ AtDependency
    /\ IsOrganizationDependency
    /\ CurrentDependencyFault = "none"
    /\ ~isOrganizationDependencyUpdated(buildState.phaseDateTime, buildInput.phase,
                                        buildInput.repositories[CurrentDependency])
    /\ dependencyIndex' = dependencyIndex + 1
    /\ UNCHANGED <<workflowVars, changeVars, mainVars, buildInput, buildPc, buildState, buildRepository,
                   packageConfiguration, packageFile, commits, buildFault>>

\* The dependency is updated: its entry is replaced (in memory) by the
\* dependency version and anyDependenciesUpdated is set.
BuildDependencyUpdated ==
    /\ AtDependency
    /\ IsOrganizationDependency
    /\ CurrentDependencyFault = "none"
    /\ isOrganizationDependencyUpdated(buildState.phaseDateTime, buildInput.phase,
                                       buildInput.repositories[CurrentDependency])
    /\ packageConfiguration' =
            WithEntryVersion(packageConfiguration, dependencyIndex,
                dependencyVersionFor(buildInput.phase, CurrentDependency,
                                     buildInput.repositories[CurrentDependency]))
    /\ buildState' = [buildState EXCEPT !.anyDependenciesUpdated = TRUE]
    /\ dependencyIndex' = dependencyIndex + 1
    /\ UNCHANGED <<workflowVars, changeVars, mainVars, buildInput, buildPc, buildRepository, packageFile, commits,
                   buildFault>>

\* After the declared dependencies: savePackageConfigurationPending is set
\* to anyDependenciesUpdated, and the loop over the additional dependencies
\* begins.
BuildDependenciesDone ==
    /\ buildPc = "dependencies"
    /\ dependencyIndex > Len(DeclaredEntries(packageConfiguration))
    /\ buildState' = [buildState EXCEPT
            !.savePackageConfigurationPending = buildState.anyDependenciesUpdated]
    /\ dependencyIndex' = 1
    /\ buildPc' = "additional"
    /\ UNCHANGED <<workflowVars, changeVars, mainVars, buildInput, buildRepository, packageConfiguration, packageFile,
                   commits, buildFault>>

AtAdditional ==
    /\ buildPc = "additional"
    /\ dependencyIndex <= Len(buildRepository.additionalDependencies)

CurrentAdditional == buildInput.repositories[buildRepository.additionalDependencies[dependencyIndex]]

BuildAdditionalFault ==
    /\ AtAdditional
    /\ OrganizationDependencyFault(buildInput.phase, CurrentAdditional) # "none"
    /\ buildFault' = OrganizationDependencyFault(buildInput.phase, CurrentAdditional)
    /\ buildPc' = "fault"
    /\ UNCHANGED <<workflowVars, changeVars, mainVars, buildInput, buildState, buildRepository, packageConfiguration,
                   packageFile, commits, dependencyIndex>>

BuildAdditionalUnchanged ==
    /\ AtAdditional
    /\ OrganizationDependencyFault(buildInput.phase, CurrentAdditional) = "none"
    /\ ~isOrganizationDependencyUpdated(buildState.phaseDateTime, buildInput.phase,
                                        CurrentAdditional)
    /\ dependencyIndex' = dependencyIndex + 1
    /\ UNCHANGED <<workflowVars, changeVars, mainVars, buildInput, buildPc, buildState, buildRepository,
                   packageConfiguration, packageFile, commits, buildFault>>

\* (variant of BuildAdditionalUpdated: an updated additional dependency also
\* makes the save of package.json pending)
BuildAdditionalUpdated_Pending ==
    /\ AtAdditional
    /\ OrganizationDependencyFault(buildInput.phase, CurrentAdditional) = "none"
    /\ isOrganizationDependencyUpdated(buildState.phaseDateTime, buildInput.phase,
                                       CurrentAdditional)
    /\ buildState' = [buildState EXCEPT
            !.anyDependenciesUpdated = TRUE, !.savePackageConfigurationPending = TRUE]
    /\ dependencyIndex' = dependencyIndex + 1
    /\ UNCHANGED <<workflowVars, changeVars, mainVars, buildInput, buildPc, buildRepository, packageConfiguration,
                   packageFile, commits, buildFault>>

\* The additional dependency is updated: anyDependenciesUpdated is set.
BuildAdditionalUpdated ==
    /\ AtAdditional
    /\ OrganizationDependencyFault(buildInput.phase, CurrentAdditional) = "none"
    /\ isOrganizationDependencyUpdated(buildState.phaseDateTime, buildInput.phase,
                                       CurrentAdditional)
    /\ buildState' = [buildState EXCEPT !.anyDependenciesUpdated = TRUE]
    /\ dependencyIndex' = dependencyIndex + 1
    /\ UNCHANGED <<workflowVars, changeVars, mainVars, buildInput, buildPc, buildRepository, packageConfiguration,
                   packageFile, commits, buildFault>>

\* #buildPublishState returns; publishAll goes on to call publish().
BuildReturn ==
    /\ buildPc = "additional"
    /\ dependencyIndex > Len(buildRepository.additionalDependencies)
    /\ buildPc' = "publish"
    /\ UNCHANGED <<workflowVars, changeVars, mainVars, buildInput, buildState, buildRepository, packageConfiguration,
                   packageFile, commits, dependencyIndex, buildFault>>

\* `alpha.${new Date().toISOString().replaceAll(/\D/ug, "").substring(0, 12)}`:
\* the digits of the date/time down to the minute.
AlphaStamp(dateTime) == "alpha." \o ToString(dateTime \div 60000)

\* AlphaPublisher.publish with changes or updated dependencies: a version
\* of another phase gets the next patch number and the alpha identifier;
\* for a repository that others depend on the version is stamped with the
\* date/time, recorded by updatePhaseState({version}) and, after npm
\* publish, restored to the plain alpha identifier.
AlphaPublishVersion(dateTime) ==
    /\ buildPc = "publish"
    /\ buildInput.phase = "alpha"
    /\ LET switchToAlpha == buildState.preReleaseIdentifier # "alpha"
           switched ==
                IF switchToAlpha
                THEN updatePackageVersion(buildState,
                                          [patchVersion |-> buildState.patchVersion + 1,
                                           preReleaseIdentifier |-> "alpha"])
                ELSE buildState
           isDependency == buildRepository.dependencyType \in {"external", "internal"}
           stamped == updatePackageVersion(switched,
                                           [preReleaseIdentifier |-> AlphaStamp(dateTime)])
           restored == updatePackageVersion(stamped, [preReleaseIdentifier |-> "alpha"])
       IN /\ buildState' =
                IF isDependency
                THEN updatePhaseState(
                        [restored EXCEPT !.savePackageConfigurationPending = FALSE],
                        [version |-> PackageVersion(stamped)])
                ELSE IF switchToAlpha
                THEN [switched EXCEPT !.savePackageConfigurationPending = FALSE]
                ELSE buildState
          /\ packageConfiguration' =
                IF isDependency \/ switchToAlpha
                THEN [packageConfiguration EXCEPT !.version = PackageVersion(buildState')]
                ELSE packageConfiguration
          /\ packageFile' =
                IF isDependency \/ switchToAlpha
                THEN WrittenBySavePackage(packageConfiguration', buildInput.dryRun, packageFile)
                ELSE packageFile
    /\ buildRepository' = [buildRepository EXCEPT
            !.phaseStates[buildInput.phase] = buildState'.phaseState]
    /\ buildPc' = "steps"
    /\ UNCHANGED <<workflowVars, changeVars, mainVars, buildInput, commits, dependencyIndex, buildFault>>

\* (variant of PublishPhaseVersion: the version is recorded for every
\* repository)
PublishPhaseVersion_AnyType ==
    /\ buildPc = "publish"
    /\ buildInput.phase # "alpha"
    /\ buildState.preReleaseIdentifier = PREVIOUS_PHASE[buildInput.phase]
    /\ LET updated ==
            updatePackageVersion(buildState,
                                 [preReleaseIdentifier |-> PhaseIdentifier(buildInput.phase)])
           savedState == [updated EXCEPT !.savePackageConfigurationPending = FALSE]
       IN /\ packageConfiguration' =
                [packageConfiguration EXCEPT !.version = PackageVersion(updated)]
          /\ buildState' = updatePhaseState(savedState, [version |-> PackageVersion(updated)])
    /\ packageFile' = WrittenBySavePackage(packageConfiguration', buildInput.dryRun, packageFile)
    /\ buildRepository' = [buildRepository EXCEPT
            !.phaseStates[buildInput.phase] = buildState'.phaseState]
    /\ buildPc' = "steps"
    /\ UNCHANGED <<workflowVars, changeVars, mainVars, buildInput, commits, dependencyIndex, buildFault>>

\* NonAlphaPublisher.publish, the package version carrying the previous
\* phase's identifier and anyChanges reporting none: updatePackageVersion
\* moves the pre-release identifier to this phase's (none for production)
\* and saves package.json; for a repository that others depend on,
\* updatePhaseState({version}) records the version.
PublishPhaseVersion ==
    /\ buildPc = "publish"
    /\ buildInput.phase # "alpha"
    /\ buildState.preReleaseIdentifier = PREVIOUS_PHASE[buildInput.phase]
    /\ LET updated ==
            updatePackageVersion(buildState,
                                 [preReleaseIdentifier |-> PhaseIdentifier(buildInput.phase)])
           savedState == [updated EXCEPT !.savePackageConfigurationPending = FALSE]
       IN /\ packageConfiguration' =
                [packageConfiguration EXCEPT !.version = PackageVersion(updated)]
          /\ buildState' =
                IF buildRepository.dependencyType \in {"external", "internal"}
                THEN updatePhaseState(savedState, [version |-> PackageVersion(updated)])
                ELSE savedState
    /\ packageFile' = WrittenBySavePackage(packageConfiguration', buildInput.dryRun, packageFile)
    /\ buildRepository' = [buildRepository EXCEPT
            !.phaseStates[buildInput.phase] = buildState'.phaseState]
    /\ buildPc' = "steps"
    /\ UNCHANGED <<workflowVars, changeVars, mainVars, buildInput, commits, dependencyIndex, buildFault>>

\* The instants at which publish() can read the clock: the last second of
\* the model, at its start, just after and just before its end.
Milliseconds == {0, 1, 999}

PublishInstants == {MaxSecond * 1000 + millisecond : millisecond \in Milliseconds}

\* publish() ends with updatePhaseState({dateTime: new Date()}): the phase
\* state of the repository and of the publish state is replaced by one with
\* the rounded date/time, which also becomes the phase date/time.
UpdatePhaseStateDateTime(dateTime) ==
    /\ \/ buildPc = "steps"
       \/ /\ buildPc = "publish"
          /\ buildInput.phase # "alpha"
          /\ buildState.preReleaseIdentifier = buildInput.phase
    /\ buildState' = updatePhaseState(buildState, [dateTime |-> dateTime])
    /\ buildRepository' = [buildRepository EXCEPT
            !.phaseStates[buildInput.phase] = buildState'.phaseState]
    /\ buildPc' = "published"
    /\ UNCHANGED <<workflowVars, changeVars, mainVars, buildInput, packageConfiguration, packageFile, commits,
                   dependencyIndex, buildFault>>

BuildNext ==
    \/ BuildInvalidVersion
    \/ BuildParse
    \/ BuildInvalidBranch
    \/ BuildVersionKept
    \/ BuildInvalidTransition
    \/ BuildVersionUpdated
    \/ BuildDependencyIgnored
    \/ BuildDependencyFault
    \/ BuildDependencyUnchanged
    \/ BuildDependencyUpdated
    \/ BuildDependenciesDone
    \/ BuildAdditionalFault
    \/ BuildAdditionalUnchanged
    \/ BuildAdditionalUpdated
    \/ BuildReturn
    \/ \E dateTime \in PublishInstants : AlphaPublishVersion(dateTime)
    \/ PublishPhaseVersion
    \/ \E dateTime \in PublishInstants : UpdatePhaseStateDateTime(dateTime)

BuildSpec == BuildInit /\ [][BuildNext]_vars

----------------------------------------------------------------------------
\* anyChanges in detail: one call, record by record.

\* Paths are sequences of tokens: names, "." and "/".
StartsWith(path, prefix) ==
    Len(prefix) <= Len(path) /\ SubSeq(path, 1, Len(prefix)) = prefix

EndsWith(path, suffix) ==
    Len(suffix) <= Len(path)
        /\ SubSeq(path, Len(path) - Len(suffix) + 1, Len(path)) = suffix

Includes(path, infix) ==
    \E first \in 1..Len(path) :
        first + Len(infix) - 1 <= Len(path)
            /\ SubSeq(path, first, first + Len(infix) - 1) = infix

\* PACKAGE_LOCK_CONFIGURATION_PATH
PackageLockConfigurationPath == <<"package-lock", ".", "json">>

\* A file name that is undefined.
NoFile == << >>

\* The files that git reports in the model.
SourceFile == <<"src", "/", "a", ".", "ts">>
RenamedFile == <<"src", "/", "b", ".", "ts">>
WorkflowFile == <<".", "github", "/", "ci", ".", "yml">>
TestFile == <<"test", "/", "t", ".", "ts">>
DocumentFile == <<"docs", "/", "x", ".", "md">>
HiddenFile == <<"src", "/", ".", "env">>
LicenseFile == <<"LICENSE">>

Files ==
    {SourceFile, RenamedFile, WorkflowFile, TestFile, PackageLockConfigurationPath,
     DocumentFile, HiddenFile, LicenseFile}

\* The renames that git reports: from the first file to the second.
Renames == {<<SourceFile, RenamedFile>>, <<RenamedFile, TestFile>>, <<DocumentFile, SourceFile>>}

\* repository.excludePaths: not configured, or a directory, a file and a
\* directory named without its slash.
ExcludePathsInputs == {{}, {<<"docs", "/">>, LicenseFile, <<"src">>}}

\* The status of a line of git log --name-status (its first character) and
\* of git status --porcelain (two characters), as sequences of characters;
\* T (type change) and ?? (untracked) are outside [ AMDR].
LogStatuses == {<<"M">>, <<"D">>, <<"T">>}

PorcelainStatuses ==
    {<<" ", "M">>, <<"D", " ">>, <<"A", "D">>, <<"A", "M">>, <<"M", "M">>, <<"M", "D">>,
     <<"?", "?">>}

RenameStatuses == {<<"R", " ">>, <<"R", "M">>, <<"R", "D">>}

\* /^[ AMDR]{1,2}$/
IsKnownStatus(status) ==
    Len(status) \in {1, 2} /\ \A k \in 1..Len(status) : status[k] \in {" ", "A", "M", "D", "R"}

\* (variant of resolvedStatus: a file added to the index stays added when
\* it is deleted from the working tree)
resolvedStatus_AddedFirst(status) ==
    IF Len(status) = 1 THEN status[1]
    ELSE LET indexStatus == status[1]
             workingTreeStatus == status[2]
         IN IF indexStatus = " " THEN workingTreeStatus
            ELSE IF workingTreeStatus = " " THEN indexStatus
            ELSE IF indexStatus = "A" THEN "A"
            ELSE IF workingTreeStatus = "D" THEN "D"
            ELSE indexStatus

\* processChangedFile: the status that a one- or two-character status
\* resolves to.
resolvedStatus(status) ==
    IF Len(status) = 1 THEN status[1]
    ELSE LET indexStatus == status[1]
             workingTreeStatus == status[2]
         IN IF indexStatus = " " THEN workingTreeStatus
            ELSE IF workingTreeStatus = " " THEN indexStatus
            ELSE IF workingTreeStatus = "D" THEN "D"
            ELSE IF indexStatus = "A" THEN "A"
            ELSE indexStatus

deleteFile(status, file) ==
    IF resolvedStatus(status) \in {"D", "R"} THEN file ELSE NoFile

addFile(status, file, newFile) ==
    IF resolvedStatus(status) = "R" THEN newFile
    ELSE IF resolvedStatus(status) # "D" THEN file ELSE NoFile

\* (variant of IsChangedFile: the test directory is not excluded)
IsChangedFile_WithTests(file, ignoreGitHub, excludePaths) ==
    /\ \/ ~StartsWith(file, <<".">>) /\ ~Includes(file, <<"/", ".">>)
       \/ ~ignoreGitHub /\ StartsWith(file, <<".", "github", "/">>)
    /\ file # PackageLockConfigurationPath
    /\ \A excludePath \in excludePaths :
            ~(file = excludePath
                \/ (EndsWith(excludePath, <<"/">>) /\ StartsWith(file, excludePath)))

\* processChangedFile: the condition under which a file is added to the
\* set, which excludes hidden files and directories except possibly
\* .github, package-lock.json, the test directory and the excluded paths.
IsChangedFile(file, ignoreGitHub, excludePaths) ==
    /\ \/ ~StartsWith(file, <<".">>) /\ ~Includes(file, <<"/", ".">>)
       \/ ~ignoreGitHub /\ StartsWith(file, <<".", "github", "/">>)
    /\ file # PackageLockConfigurationPath
    /\ ~StartsWith(file, <<"test", "/">>)
    /\ \A excludePath \in excludePaths :
            ~(file = excludePath
                \/ (EndsWith(excludePath, <<"/">>) /\ StartsWith(file, excludePath)))

\* (variant of processChangedFile: the file that is deleted or renamed stays
\* in the set)
processChangedFile_NoDelete(files, status, file, newFile, ignoreGitHub, excludePaths) ==
    IF /\ addFile(status, file, newFile) # NoFile
       /\ addFile(status, file, newFile) \notin files
       /\ IsChangedFile(addFile(status, file, newFile), ignoreGitHub, excludePaths)
    THEN files \cup {addFile(status, file, newFile)}
    ELSE files

\* processChangedFile with a status that is known: changedFilesSet after
\* the file to delete is removed and the file to add, if it is not in the
\* set and not excluded, is added.
processChangedFile(files, status, file, newFile, ignoreGitHub, excludePaths) ==
    LET afterDelete == files \ {deleteFile(status, file)}
    IN IF /\ addFile(status, file, newFile) # NoFile
          /\ addFile(status, file, newFile) \notin afterDelete
          /\ IsChangedFile(addFile(status, file, newFile), ignoreGitHub, excludePaths)
       THEN afterDelete \cup {addFile(status, file, newFile)}
       ELSE afterDelete

\* The callers pass ignoreGitHub true in the alpha phase and false in the
\* others. phaseDateTime is NeverPublished where it is undefined.
ChangesInit ==
    /\ NoProcess
    /\ NotBuilding
    /\ NoValidation
    /\ \E p \in Phases, phaseDateTime \in {NeverPublished, MaxSecond * 1000},
          excludePaths \in ExcludePathsInputs, outstanding \in BOOLEAN :
            changeInput = [phase |-> p, phaseDateTime |-> phaseDateTime,
                           ignoreGitHub |-> (p = "alpha"), excludePaths |-> excludePaths,
                           outstanding |-> outstanding]
    /\ changePc = "fetch"
    /\ changedFilesSet = {}
    /\ committedCount = 0
    /\ records = << >>
    /\ anyChanges = Undefined
    /\ changeFault = "none"
    /\ mtimes = << >>

\* (variant of RemoteOutstanding: the remote repository is looked at only
\* for a phase that was published before)
RemoteOutstanding_IfPublished ==
    /\ changeInput.phase # "alpha"
    /\ changeInput.outstanding
    /\ changeInput.phaseDateTime # NeverPublished

\* The output of git fetch --porcelain --dry-run is looked at in a
\* non-alpha phase, and is not empty.
RemoteOutstanding ==
    /\ changeInput.phase # "alpha"
    /\ changeInput.outstanding

\* "Remote repository has outstanding changes".
ChangesRemoteFault ==
    /\ changePc = "fetch"
    /\ RemoteOutstanding
    /\ changeFault' = "Remote repository has outstanding changes"
    /\ changePc' = "fault"
    /\ UNCHANGED <<workflowVars, mainVars, buildVars, changeInput, changedFilesSet, committedCount, records,
                   anyChanges, mtimes>>

\* The phase was never published: anyChanges is true.
ChangesNeverPublished ==
    /\ changePc = "fetch"
    /\ ~RemoteOutstanding
    /\ changeInput.phaseDateTime = NeverPublished
    /\ anyChanges' = "true"
    /\ changePc' = "returned"
    /\ UNCHANGED <<workflowVars, mainVars, buildVars, changeInput, changedFilesSet, committedCount, records,
                   changeFault, mtimes>>

\* The phase was published: the lines of git log are gone through.
ChangesLog ==
    /\ changePc = "fetch"
    /\ ~RemoteOutstanding
    /\ changeInput.phaseDateTime # NeverPublished
    /\ changePc' = "log"
    /\ UNCHANGED <<workflowVars, mainVars, buildVars, changeInput, changedFilesSet, committedCount, records,
                   anyChanges, changeFault, mtimes>>

\* Whether a line of git output can be: a rename names a pair of Renames
\* and has a status with R first, any other line names no new file.
IsLine(status, file, newFile) ==
    IF status[1] = "R" THEN <<file, newFile>> \in Renames ELSE newFile = NoFile

\* The lines of git status in the model: every file with a status on one
\* side only or untracked, one file with every status, and of the renames
\* one with a change of the working tree on top.
IsStatusLine(status, file) ==
    " " \in {status[1], status[2]} \/ status[1] = "?" \/ file = SourceFile

\* processChangedFile on the line of a commit or, with uncommitted, on a
\* line of git status; the line is remembered with the files it removes
\* and adds.
ChangesProcess(uncommitted, status, file, newFile) ==
    /\ changePc = (IF uncommitted THEN "status" ELSE "log")
    /\ Len(records) < MaxRecords
    /\ IsLine(status, file, newFile)
    /\ IsKnownStatus(status)
    /\ changedFilesSet' = processChangedFile(changedFilesSet, status, file, newFile,
                                             changeInput.ignoreGitHub, changeInput.excludePaths)
    /\ records' = Append(records, [uncommitted |-> uncommitted, status |-> status,
                                   file |-> file, newFile |-> newFile,
                                   deleteFile |-> deleteFile(status, file),
                                   addFile |-> addFile(status, file, newFile)])
    /\ UNCHANGED <<workflowVars, mainVars, buildVars, changeInput, changePc, committedCount, anyChanges,
                   changeFault, mtimes>>

\* "Unknown status".
ChangesUnknownStatus(uncommitted, status, file, newFile) ==
    /\ changePc = (IF uncommitted THEN "status" ELSE "log")
    /\ Len(records) < MaxRecords
    /\ IsLine(status, file, newFile)
    /\ ~IsKnownStatus(status)
    /\ changeFault' = "Unknown status"
    /\ changePc' = "fault"
    /\ UNCHANGED <<workflowVars, mainVars, buildVars, changeInput, changedFilesSet, committedCount, records,
                   anyChanges, mtimes>>

\* The commits are done: committedCount is the size of the set before the
\* lines of git status are gone through.
ChangesStatus ==
    /\ changePc = "log"
    /\ committedCount' = Cardinality(changedFilesSet)
    /\ changePc' = "status"
    /\ UNCHANGED <<workflowVars, mainVars, buildVars, changeInput, changedFilesSet, records, anyChanges,
                   changeFault, mtimes>>

\* (variant of UncommittedChanges: also in the alpha phase)
UncommittedChanges_AnyPhase == Cardinality(changedFilesSet) # committedCount

\* A non-alpha phase requires that the set has the size it had before the
\* uncommitted files.
UncommittedChanges ==
    changeInput.phase # "alpha" /\ Cardinality(changedFilesSet) # committedCount

\* "Repository has uncommitted changes".
ChangesUncommittedFault ==
    /\ changePc = "status"
    /\ UncommittedChanges
    /\ changeFault' = "Repository has uncommitted changes"
    /\ changePc' = "fault"
    /\ UNCHANGED <<workflowVars, mainVars, buildVars, changeInput, changedFilesSet, committedCount, records,
                   anyChanges, mtimes>>

\* The modification times that fs.lstatSync can report, in milliseconds,
\* for a phase published at lastPublishedDateTime: every file at that
\* instant, every file a millisecond after, one file after and the others
\* before, and after only the files that processChangedFile does not add.
ModificationTimes(lastPublishedDateTime) ==
    {[file \in Files |-> lastPublishedDateTime],
     [file \in Files |-> lastPublishedDateTime + 1],
     [file \in Files |->
        IF file = SourceFile THEN lastPublishedDateTime + 1 ELSE lastPublishedDateTime - 1],
     [file \in Files |->
        IF IsChangedFile(file, changeInput.ignoreGitHub, changeInput.excludePaths)
        THEN lastPublishedDateTime - 1 ELSE lastPublishedDateTime + 1]}

\* (variant of ChangesReturn: a file modified at the instant of the last
\* publication counts as changed)
ChangesReturn_OrEqual(mtime) ==
    /\ changePc = "status"
    /\ ~UncommittedChanges
    /\ mtimes' = mtime
    /\ anyChanges' = IF \E changedFile \in changedFilesSet :
                            mtime[changedFile] >= changeInput.phaseDateTime
                      THEN "true" ELSE "false"
    /\ changePc' = "returned"
    /\ UNCHANGED <<workflowVars, mainVars, buildVars, changeInput, changedFilesSet, committedCount, records,
                   changeFault>>

\* The files of the set are looked at: anyChanges is true if the
\* modification time of one of them is later than lastPublishedDateTime.
ChangesReturn(mtime) ==
    /\ changePc = "status"
    /\ ~UncommittedChanges
    /\ mtimes' = mtime
    /\ anyChanges' = IF \E changedFile \in changedFilesSet :
                            mtime[changedFile] > changeInput.phaseDateTime
                      THEN "true" ELSE "false"
    /\ changePc' = "returned"
    /\ UNCHANGED <<workflowVars, mainVars, buildVars, changeInput, changedFilesSet, committedCount, records,
                   changeFault>>

ChangesNext ==
    \/ ChangesRemoteFault
    \/ ChangesNeverPublished
    \/ ChangesLog
    \/ \E status \in LogStatuses, file \in Files :
            \/ ChangesProcess(FALSE, status, file, NoFile)
            \/ ChangesUnknownStatus(FALSE, status, file, NoFile)
    \/ \E rename \in Renames : ChangesProcess(FALSE, <<"R">>, rename[1], rename[2])
    \/ ChangesStatus
    \/ \E status \in PorcelainStatuses, file \in Files :
            /\ IsStatusLine(status, file)
            /\ \/ ChangesProcess(TRUE, status, file, NoFile)
               \/ ChangesUnknownStatus(TRUE, status, file, NoFile)
    \/ \E status \in RenameStatuses, rename \in Renames :
            /\ IsStatusLine(status, rename[1])
            /\ ChangesProcess(TRUE, status, rename[1], rename[2])
    \/ ChangesUncommittedFault
    \/ \E mtime \in ModificationTimes(changeInput.phaseDateTime) : ChangesReturn(mtime)

ChangesSpec == ChangesInit /\ [][ChangesNext]_vars

----------------------------------------------------------------------------
\* #validateWorkflow in detail: one call, query by query, with the workflow
\* runs of the commit progressing at GitHub in between.

\* The queries without a run seen after which the call gives up.
QueryLimit == 10

\* The identifiers of the workflow runs that the commit can trigger.
WorkflowRunIDs == 1..MaxRuns

\* A run that does not exist yet, and the conclusions of a completed run.
NotTriggered == [status |-> "none", conclusion |-> Null]

Conclusions == {"success", "failure"}

\* The runs that exist.
TriggeredRuns == {id \in WorkflowRunIDs : workflowRuns[id].status # "none"}

\* response.data.workflow_runs: the runs that exist, in any order.
Responses ==
    {[k \in 1..Len(order) |->
        [id |-> order[k],
         status |-> workflowRuns[order[k]].status,
         conclusion |-> workflowRuns[order[k]].conclusion]] :
     order \in {seq \in [1..Cardinality(TriggeredRuns) -> TriggeredRuns] :
                    \A j, k \in DOMAIN seq : j # k => seq[j] # seq[k]}}

WorkflowInit ==
    /\ NoProcess
    /\ NotBuilding
    /\ NoCall
    /\ \E d \in BOOLEAN, triggers \in SUBSET WorkflowRunIDs :
            workflowInput = [dryRun |-> d, triggers |-> triggers]
    /\ workflowRuns = [id \in WorkflowRunIDs |-> NotTriggered]
    /\ workflowPc = "start"
    /\ completed = FALSE
    /\ queryCount = 0
    /\ workflowRunID = NoWorkflowRunID
    /\ response = << >>
    /\ workflowFault = "none"

\* GitHub: a run that the commit triggers is queued.
WorkflowRunQueued(id) ==
    /\ workflowPc \in {"start", "query"}
    /\ id \in workflowInput.triggers
    /\ workflowRuns[id].status = "none"
    /\ workflowRuns' = [workflowRuns EXCEPT ![id].status = "queued"]
    /\ UNCHANGED <<mainVars, buildVars, changeVars, workflowInput, workflowPc, completed,
                   queryCount, workflowRunID, response, workflowFault>>

\* GitHub: a queued run starts.
WorkflowRunStarted(id) ==
    /\ workflowPc \in {"start", "query"}
    /\ workflowRuns[id].status = "queued"
    /\ workflowRuns' = [workflowRuns EXCEPT ![id].status = "in_progress"]
    /\ UNCHANGED <<mainVars, buildVars, changeVars, workflowInput, workflowPc, completed,
                   queryCount, workflowRunID, response, workflowFault>>

\* GitHub: a run completes with a conclusion.
WorkflowRunCompleted(id, conclusion) ==
    /\ workflowPc \in {"start", "query"}
    /\ workflowRuns[id].status = "in_progress"
    /\ workflowRuns' = [workflowRuns EXCEPT ![id] =
                            [status |-> "completed", conclusion |-> conclusion]]
    /\ UNCHANGED <<mainVars, buildVars, changeVars, workflowInput, workflowPc, completed,
                   queryCount, workflowRunID, response, workflowFault>>

\* "Dry run: Validate workflow".
ValidateWorkflowDryRun ==
    /\ workflowPc = "start"
    /\ workflowInput.dryRun
    /\ workflowPc' = "returned"
    /\ UNCHANGED <<mainVars, buildVars, changeVars, workflowInput, workflowRuns, completed,
                   queryCount, workflowRunID, response, workflowFault>>

\* git rev-parse, and the locals are initialized.
ValidateWorkflowBegin ==
    /\ workflowPc = "start"
    /\ ~workflowInput.dryRun
    /\ workflowPc' = "query"
    /\ UNCHANGED <<mainVars, buildVars, changeVars, workflowInput, workflowRuns, completed,
                   queryCount, workflowRunID, response, workflowFault>>

\* (variant of ObserveWorkflowRun: a completed run is taken as the run of
\* the call when none was seen before)
ObserveWorkflowRun_AlsoCompleted(locals, workflowRun) ==
    IF workflowRun.status # "completed"
    THEN IF workflowRun.id = locals.workflowRunID THEN locals
         ELSE IF locals.workflowRunID = NoWorkflowRunID
         THEN [locals EXCEPT !.workflowRunID = workflowRun.id]
         ELSE [locals EXCEPT !.fault = "Parallel workflow runs"]
    ELSE IF workflowRun.id = locals.workflowRunID \/ locals.workflowRunID = NoWorkflowRunID
    THEN IF workflowRun.conclusion # "success"
         THEN [locals EXCEPT !.fault = "Workflow " \o workflowRun.conclusion]
         ELSE [locals EXCEPT !.completed = TRUE, !.workflowRunID = workflowRun.id]
    ELSE locals

\* The body of the for loop over response.data.workflow_runs: the locals
\* after one workflow run, fault being the error thrown.
ObserveWorkflowRun(locals, workflowRun) ==
    IF workflowRun.status # "completed"
    THEN IF workflowRun.id = locals.workflowRunID THEN locals
         ELSE IF locals.workflowRunID = NoWorkflowRunID
         THEN [locals EXCEPT !.workflowRunID = workflowRun.id]
         ELSE [locals EXCEPT !.fault = "Parallel workflow runs"]
    ELSE IF workflowRun.id = locals.workflowRunID
    THEN IF workflowRun.conclusion # "success"
         THEN [locals EXCEPT !.fault = "Workflow " \o workflowRun.conclusion]
         ELSE [locals EXCEPT !.completed = TRUE]
    ELSE locals

\* The for loop: it ends at the first error thrown.
RECURSIVE ObserveWorkflowRuns(_, _)
ObserveWorkflowRuns(locals, workflowRuns_) ==
    IF workflowRuns_ = << >> \/ locals.fault # "none" THEN locals
    ELSE ObserveWorkflowRuns(ObserveWorkflowRun(locals, Head(workflowRuns_)),
                             Tail(workflowRuns_))

\* ++queryCount; past QueryLimit the count is compared to nothing and is
\* kept at MaxQueryCount.
IncrementQueryCount(count) == IF count < MaxQueryCount THEN count + 1 ELSE count

\* (variant of NotStartedFault: the call gives up at QueryLimit whether a run
\* was seen or not)
NotStartedFault_Always(count, runID) == count = QueryLimit

\* "Workflow run not started": QueryLimit queries were made and no run was
\* seen.
NotStartedFault(count, runID) == count = QueryLimit /\ runID = NoWorkflowRunID

\* One pass of the do loop: after the timer the runs of the commit are
\* listed and gone through, then the count of queries is looked at.
ValidateWorkflowQuery(workflow_runs) ==
    /\ workflowPc = "query"
    /\ response' = workflow_runs
    /\ LET locals == ObserveWorkflowRuns(
                        [workflowRunID |-> workflowRunID, completed |-> completed,
                         fault |-> "none"], workflow_runs)
           count == IncrementQueryCount(queryCount)
       IN /\ workflowRunID' = locals.workflowRunID
          /\ completed' = locals.completed
          /\ IF locals.fault # "none"
             THEN /\ queryCount' = queryCount
                  /\ workflowFault' = locals.fault
                  /\ workflowPc' = "fault"
             ELSE /\ queryCount' = count
                  /\ IF NotStartedFault(count, locals.workflowRunID)
                     THEN /\ workflowFault' = "Workflow run not started"
                          /\ workflowPc' = "fault"
                     ELSE /\ workflowFault' = workflowFault
                          /\ workflowPc' = IF locals.completed THEN "returned" ELSE "query"
    /\ UNCHANGED <<mainVars, buildVars, changeVars, workflowInput, workflowRuns>>

WorkflowNext ==
    \/ \E id \in WorkflowRunIDs :
            \/ WorkflowRunQueued(id)
            \/ WorkflowRunStarted(id)
            \/ \E conclusion \in Conclusions : WorkflowRunCompleted(id, conclusion)
    \/ ValidateWorkflowDryRun
    \/ ValidateWorkflowBegin
    \/ \E workflow_runs \in Responses : ValidateWorkflowQuery(workflow_runs)

WorkflowSpec == WorkflowInit /\ [][WorkflowNext]_vars

\* The do loop goes on: the timer fires and the request is answered.
WorkflowLiveSpec ==
    WorkflowSpec /\ WF_vars(\E workflow_runs \in Responses : ValidateWorkflowQuery(workflow_runs))

----------------------------------------------------------------------------
\* Vocabulary of the properties.

\* The process is between chdir into a repository and the end of the finally
\* block of that repository.
InRepository == pc \in {"build", "publish", "steps", "inStep", "published", "finally"}

\* The run ended by reaching the end of publishAll's try block.
EndedNormally ==
    pc = "stopped" /\ exitStatus = "success" /\ faulted = "none" /\ saved # NotSaved

\* The run ended because building or publishing a repository threw.
EndedByFault == pc = "stopped" /\ faulted \in {"build", "publish", "step"}

StepNumber(step) == CHOOSE k \in 1..NumSteps : StepOrder[k] = step

\* The steps executed for repository r in this run, in execution order.
ExecutedFor(r) == SelectSeq(executed, LAMBDA e : e[1] = r)

IsIncreasing(seq) == \A i, j \in 1..Len(seq) : i < j => seq[i] < seq[j]

StepNumbers(seq) == [i \in 1..Len(seq) |-> StepNumber(seq[i][2])]

\* The steps from number k on that publish() walks for repository r.
IncludedFrom(r, k) ==
    {j \in k..NumSteps : StepIncluded(StepOrder[j], repositories[r], phase, dryRun)}

Range(seq) == {seq[i] : i \in 1..Len(seq)}

\* The run went through building and publishing every repository.
ProcessedAll == EndedNormally /\ Range(attempted) = RepositoryNames

----------------------------------------------------------------------------
\* C1: for a non-alpha phase and a step S, when the persisted step marker is
\* S because a prior run faulted during S, a rerun (not a dry run) executes no
\* step before S for that repository, does not fault before it has run S,
\* executes S and every included later step in order, and finishes the
\* repository with the marker cleared and the phase date/time recorded.
C1_ResumeAtStep ==
    (resumedFrom.step # Undefined /\ ~dryRun /\ exitStatus # UncaughtException) =>
        LET R == resumedFrom.repositoryName
            S == StepNumber(resumedFrom.step)
        IN /\ \A n \in Range(StepNumbers(ExecutedFor(R))) : n >= S
           /\ IsIncreasing(StepNumbers(ExecutedFor(R)))
           /\ ~(repositoryIndex = R /\ faulted = "publish")
           /\ (pc = "published" /\ repositoryIndex = R) =>
                /\ Range(StepNumbers(ExecutedFor(R))) = IncludedFrom(R, S)
                /\ configuration.phaseStates[R][phase].dateTime # NeverPublished
           /\ (pc = "loop" /\ repositoryIndex > R) =>
                configuration.publishState.step = Undefined

\* C2: the step runner runs the action of step S exactly when the step marker
\* is undefined or S; the marker is S while the action runs and is cleared
\* when it returns; a skipped step runs nothing and leaves the marker alone.
C2_StepRunner ==
    [][ LET marker == configuration.publishState.step
            walked == AtStep /\ StepIncluded(CurrentStep, repositories[repositoryIndex], phase, dryRun)
        IN /\ (walked /\ pc' = "inStep") =>
                /\ (marker = Undefined \/ marker = CurrentStep)
                /\ configuration'.publishState.step = CurrentStep
                /\ executed' = executed
           /\ (walked /\ pc' = "steps") =>
                /\ ~(marker = Undefined \/ marker = CurrentStep)
                /\ configuration'.publishState.step = marker
                /\ executed' = executed
           /\ (pc = "inStep") => marker = CurrentStep
           /\ (pc = "inStep" /\ pc' = "steps") =>
                /\ configuration'.publishState.step = Undefined
                /\ executed' = Append(executed, <<repositoryIndex, CurrentStep>>)
      ]_vars

C2_Witness ==
    /\ pc = "inStep"
    /\ resumedFrom.step = CurrentStep
    /\ stepIndex > 1
    /\ executed = << >>

\* C3: when the action of step S throws, the marker still names S, no later
\* step of the repository is executed, and the configuration saved after the
\* repository holds step S, the repository's name and the phase of the run.
C3_FaultLeavesMarker ==
    (faulted = "step" /\ pc \in {"finally", "stopped"}) =>
        /\ configuration.publishState.step = CurrentStep
        /\ \A n \in Range(StepNumbers(ExecutedFor(repositoryIndex))) : n < stepIndex
        /\ pc = "stopped" =>
            saved.local.publishState =
                [phase |-> phase, repositoryName |-> repositoryIndex, step |-> CurrentStep]

C3_Witness ==
    /\ pc = "stopped"
    /\ faulted = "step"
    /\ saved.local.publishState.step = "tag"
    /\ Len(ExecutedFor(repositoryIndex)) = 3

\* C4 (as stated): whenever the action of step S is executing, the persisted
\* configuration already names S as the step in progress.
C4_PersistedBeforeAction ==
    pc = "inStep" => disk.local.publishState.step = CurrentStep

\* C4 (amended): while the action of step S is executing the publish state in
\* memory names S and nothing is written to the persisted configuration; the
\* persisted configuration names S once the action has thrown and the save
\* after the repository has run outside dry-run mode.
C4_RecordedInMemory ==
    [][ /\ (pc = "inStep") =>
                /\ configuration.publishState.step = CurrentStep
                /\ disk' = disk
        /\ (pc = "finally" /\ faulted = "step" /\ pc' = "stopped" /\ exitStatus' # Killed /\ ~dryRun) =>
                disk'.local.publishState.step = CurrentStep
      ]_vars

C4_Witness ==
    /\ pc = "stopped"
    /\ faulted = "step"
    /\ ~dryRun
    /\ stepIndex > 1
    /\ disk.local.publishState.step = CurrentStep

\* C5: after a run of phase P faulted in repository R, a rerun of P (not a dry
\* run) enters no repository declared before R, enters R first and, R
\* published, enters every repository declared after R whose directory
\* exists, in declaration order.
C5_ResumeAtRepository ==
    (resumedFrom.repositoryName # NoRepository /\ ~dryRun /\ exitStatus # UncaughtException) =>
        LET R == resumedFrom.repositoryName
        IN /\ \A r \in Range(attempted) : r >= R
           /\ IsIncreasing(attempted)
           /\ attempted # << >> => attempted[1] = R
           /\ EndedNormally =>
                \A r \in RepositoryNames :
                    (r > R /\ repositories[r].directoryExists) => r \in Range(attempted)

\* C6 (as stated): when building or publishing R throws, no later repository
\* is attempted in the run and the phase states of the repositories completed
\* earlier in the run are in the persisted configuration at the end of the run.
C6_PriorStatePersisted ==
    EndedByFault =>
        /\ \A r \in Range(attempted) : r <= repositoryIndex
        /\ attempted[Len(attempted)] = repositoryIndex
        /\ \A r \in Range(attempted) \ {repositoryIndex} :
                loadConfiguration(disk).phaseStates[r] = configuration.phaseStates[r]

\* C6 (amended): the same, outside dry-run mode; in dry-run mode nothing is
\* written and the persisted configuration is the one the run started with.
C6_PriorStatePersistedUnlessDryRun ==
    EndedByFault =>
        /\ \A r \in Range(attempted) : r <= repositoryIndex
        /\ attempted[Len(attempted)] = repositoryIndex
        /\ ~dryRun =>
            \A r \in Range(attempted) \ {repositoryIndex} :
                loadConfiguration(disk).phaseStates[r] = configuration.phaseStates[r]
        /\ dryRun => loadConfiguration(disk).publishState = resumedFrom

C6_Witness ==
    /\ EndedByFault
    /\ ~dryRun
    /\ Len(attempted) = 2
    /\ resumedFrom.repositoryName = NoRepository
    /\ loadConfiguration(disk).phaseStates[attempted[1]][phase].dateTime > 1

\* C7: for every repository that was entered, whether building and publishing
\* return or throw, the process is back in the start directory and the whole
\* configuration has been handed to saveConfiguration before the loop goes on
\* or the run ends.
C7_FinallyRestoresAndSaves ==
    [][ /\ (InRepository /\ pc' \in {"loop", "stopped"} /\ exitStatus' # Killed) =>
                /\ cwd' = StartDirectory
                /\ saved' = saveConfigurationDocument(configuration')
                /\ ~dryRun => disk' = saved'
        /\ InRepository => cwd = repositoryIndex
        /\ pc = "loop" => cwd = StartDirectory
      ]_vars

C7_Witness ==
    /\ pc = "stopped"
    /\ faulted = "build"
    /\ Len(attempted) = 2
    /\ cwd = StartDirectory
    /\ saved = saveConfigurationDocument(configuration)

\* C8: an absent external repository faults the run with repository-not-found;
\* an absent repository of another type is skipped and the repositories
\* declared after it are processed as if it had not been configured.
C8_AbsentRepository ==
    /\ faulted = "not found" =>
            /\ ~repositories[repositoryIndex].directoryExists
            /\ repositories[repositoryIndex].dependencyType = "external"
    /\ EndedNormally =>
            \A r \in RepositoryNames :
                (/\ repositories[r].directoryExists
                 /\ resumedFrom.repositoryName # NoRepository => r >= resumedFrom.repositoryName)
                    => r \in Range(attempted)

\* C9: starting phase P while the persisted publish state names another phase
\* fails in the constructor, before any repository is processed, and leaves
\* the persisted configuration and the manifests as they were.
C9_PhaseMismatchRejected ==
    [][ (pc = "stopped" /\ disk.local.publishState.phase \notin {Undefined, phase'}) =>
            /\ pc' = "stopped"
            /\ exitStatus' = UncaughtException
            /\ attempted' = << >>
            /\ saved' = NotSaved
            /\ disk' = disk
            /\ manifest' = manifest
      ]_vars

C9_Witness ==
    /\ pc = "stopped"
    /\ exitStatus = UncaughtException
    /\ disk.local.publishState.phase # phase
    /\ disk.local.publishState.step # Undefined

\* C10: when building or publishing a repository faults, the run ends with a
\* failure visible to the caller: the process exits with a failure status.
C10_FaultSignalled ==
    EndedByFault => exitStatus = "failure"

\* C11 (as stated): after a run that went through every repository without
\* fault, the persisted configuration contains no publish state.
C11_NoPublishStatePersisted ==
    ProcessedAll => disk.local.publishState = NoPublishState

\* C11 (amended): after such a run the configuration handed to
\* saveConfiguration contains no publish state; outside dry-run mode it is
\* the persisted one, and the next run of any phase is accepted and starts at
\* the first repository with no repository name and no step; in dry-run mode
\* the persisted publish state is the one the run started with.
C11_NoPublishStateUnlessDryRun ==
    [][ ProcessedAll =>
            /\ saved.local.publishState = NoPublishState
            /\ dryRun => disk.local.publishState = resumedFrom
            /\ ~dryRun =>
                /\ disk.local.publishState = NoPublishState
                /\ pc' = "loop"
                /\ repositoryIndex' = 1
                /\ configuration'.publishState =
                        [phase |-> phase', repositoryName |-> NoRepository, step |-> Undefined]
      ]_vars

C11_Witness ==
    /\ ProcessedAll
    /\ ~dryRun
    /\ resumedFrom.repositoryName # NoRepository
    /\ disk.local.publishState = NoPublishState

----------------------------------------------------------------------------
\* Building the publish state: vocabulary.

\* The version in package.json when the activation begins, and the version
\* of the branch it is compared with.
InputVersion == parsedVersionGroups(buildInput.version)

ComparedBranch ==
    VersionBranchOf(buildInput.dependencyType, buildInput.branch, buildInput.latestVersion)

ComparedBranchVersion == parsedBranchGroups(ComparedBranch)

\* Version major.minor is one step behind X.Y: the minor version before Y
\* of the same major version, or a minor version of the major version
\* before X.
OneStepBehind(majorVersion, minorVersion, X, Y) ==
    \/ majorVersion = X /\ minorVersion = Y - 1
    \/ majorVersion = X - 1

\* package.json has been read and its version parsed.
PackageRead == buildPc # "parse" /\ buildFault # "invalid version"

\* The branch check and the version check are over, and publish() has not
\* acted yet.
PastBranch == buildPc \notin {"parse", "branch", "steps", "published"}

\* package.json as it is after a bump to the version of the compared branch.
BumpedVersion ==
    formatVersion(ComparedBranchVersion.branchMajorVersion,
                  ComparedBranchVersion.branchMinorVersion, 0, Null)

\* The package version is one step behind the version of the compared branch.
BranchOneStepAhead ==
    /\ IsVersionString(buildInput.version)
    /\ IsVersionBranch(ComparedBranch)
    /\ OneStepBehind(InputVersion.majorVersion, InputVersion.minorVersion,
                     ComparedBranchVersion.branchMajorVersion,
                     ComparedBranchVersion.branchMinorVersion)

\* The branch of the repository passes the check of the phase.
InputBranchIsValid ==
    \/ buildInput.phase = "alpha"
    \/ buildInput.dependencyType = "helper"
    \/ /\ IsVersionString(buildInput.version)
       /\ buildInput.branch = BranchName(InputVersion.majorVersion, InputVersion.minorVersion)

----------------------------------------------------------------------------
----------------------------------------------------------------------------
\* The version of the compared branch is ahead of the package version.
BranchAhead ==
    /\ IsVersionString(buildInput.version)
    /\ IsVersionBranch(ComparedBranch)
    /\ \/ ComparedBranchVersion.branchMajorVersion > InputVersion.majorVersion
       \/ /\ ComparedBranchVersion.branchMajorVersion = InputVersion.majorVersion
          /\ ComparedBranchVersion.branchMinorVersion > InputVersion.minorVersion

\* The version of the compared branch is the next minor version of the same
\* major version.
BranchNextMinor ==
    /\ ComparedBranchVersion.branchMajorVersion = InputVersion.majorVersion
    /\ ComparedBranchVersion.branchMinorVersion = InputVersion.minorVersion + 1

\* The version of the compared branch differs from the package version, which
\* is not one step behind it.
BranchNotOneStepAhead ==
    /\ IsVersionString(buildInput.version)
    /\ IsVersionBranch(ComparedBranch)
    /\ \/ ComparedBranchVersion.branchMajorVersion # InputVersion.majorVersion
       \/ ComparedBranchVersion.branchMinorVersion # InputVersion.minorVersion
    /\ ~OneStepBehind(InputVersion.majorVersion, InputVersion.minorVersion,
                      ComparedBranchVersion.branchMajorVersion,
                      ComparedBranchVersion.branchMinorVersion)

\* package.json is as it was and nothing was committed.
ManifestUntouched ==
    /\ packageFile.version = buildInput.version
    /\ commits = << >>

----------------------------------------------------------------------------
\* The repository is not a helper and, in a non-alpha phase, is on another
\* branch than that of the version in package.json.
OffVersionBranch ==
    /\ IsVersionString(buildInput.version)
    /\ buildInput.phase # "alpha"
    /\ buildInput.dependencyType # "helper"
    /\ buildInput.branch # BranchName(InputVersion.majorVersion, InputVersion.minorVersion)

\* C14: in a non-alpha phase a repository that is not a helper and is not on
\* the branch v<major>.<minor> of its package version ends with the
\* invalid-branch error, with the version unchanged in the publish state, in
\* memory and in package.json, nothing committed and publish() not reached;
\* in the alpha phase and for a helper repository the invalid-branch error
\* is never raised.
C14_InvalidBranchRejected ==
    /\ OffVersionBranch /\ PastBranch =>
            /\ buildPc = "fault"
            /\ buildFault = "invalid branch"
            /\ buildState.majorVersion = InputVersion.majorVersion
            /\ buildState.minorVersion = InputVersion.minorVersion
            /\ buildState.patchVersion = InputVersion.patchVersion
            /\ packageConfiguration.version = buildInput.version
            /\ ManifestUntouched
    /\ buildInput.phase = "alpha" \/ buildInput.dependencyType = "helper"
            => buildFault # "invalid branch"

C14_Witness ==
    /\ OffVersionBranch
    /\ IsVersionBranch(buildInput.branch)
    /\ OneStepBehind(InputVersion.majorVersion, InputVersion.minorVersion,
                     ComparedBranchVersion.branchMajorVersion,
                     ComparedBranchVersion.branchMinorVersion)
    /\ buildFault = "invalid branch"

----------------------------------------------------------------------------
\* The dependencies declared in package.json when the activation begins, in
\* the order of the loop, and the repository of the k-th of them.
InputEntries == DeclaredEntries(buildInput.declared)

EntryRepositoryName(k) == dependencyRepositoryName(InputEntries[k].name)

EntryRepository(k) == buildInput.repositories[EntryRepositoryName(k)]

\* The k-th declared dependency is a package of the organization.
InOrganization(k) == EntryRepositoryName(k) # Null

\* The working version that the repository gets: major.minor of the version
\* in package.json when the activation begins.
InputWorkingVersion == MajorMinor(InputVersion.majorVersion, InputVersion.minorVersion)

\* The resolved date/time of the last publication of the repository in the
\* phase, and that of a dependency repository.
InputPhaseDateTime ==
    getPhaseDateTime(buildInput.phase, buildInput.phaseStates,
                     buildInput.phaseStates[buildInput.phase].dateTime)

ResolvedDateTime(dependencyRepository) ==
    getPhaseDateTime(buildInput.phase, dependencyRepository.phaseStates,
                     dependencyRepository.phaseStates[buildInput.phase].dateTime)

\* The dependency repository was published strictly later than the
\* repository, or the repository was never published.
PublishedLater(dependencyRepository) ==
    \/ InputPhaseDateTime = NeverPublished
    \/ InputPhaseDateTime < ResolvedDateTime(dependencyRepository)

\* The loop over the declared dependencies is past the k-th of them.
Processed(k) ==
    \/ buildPc = "dependencies" /\ dependencyIndex > k
    \/ buildPc \in {"additional", "publish", "published"}

\* The k-th declared dependency has been replaced by the dependency version
\* of its repository, or is as it was.
EntryReplaced(k) ==
    DeclaredEntries(packageConfiguration)[k].version =
        dependencyVersionFor(buildInput.phase, EntryRepositoryName(k), EntryRepository(k))

EntryUnchanged(k) == DeclaredEntries(packageConfiguration)[k] = InputEntries[k]

\* C15 (as stated): every declared dependency of the organization that the
\* loop is past has been replaced, with anyDependenciesUpdated set, if its
\* repository was published strictly later than this repository or this
\* repository was never published, and is unchanged otherwise.
C15_EveryOrganizationDependency ==
    \A k \in 1..Len(InputEntries) :
        InOrganization(k) /\ Processed(k) =>
            IF PublishedLater(EntryRepository(k))
            THEN buildState.anyDependenciesUpdated /\ EntryReplaced(k)
            ELSE EntryUnchanged(k)

\* C15 (amended): a declared dependency that is not of the organization, or
\* whose repository has another working version than this repository, is
\* never changed. A declared dependency of the organization whose
\* repository has the working version of this repository and that the loop
\* is past has a repository with a state and a resolved date/time for the
\* phase (otherwise the build has ended with an error); if that date/time
\* is strictly later than the resolved date/time of this repository, or
\* this repository has none, the dependency repository has a version and a
\* type from which the dependency version is formed (otherwise the build
\* has ended with an error), anyDependenciesUpdated is set and the entry
\* is replaced by the dependency version; otherwise the entry is unchanged.
\* An entry is changed in no other case.
C15_SameWorkingVersionDependency ==
    PackageRead =>
        \A k \in 1..Len(InputEntries) :
            IF /\ InOrganization(k)
               /\ EntryRepository(k).workingVersion = InputWorkingVersion
            THEN /\ Processed(k) =>
                        /\ EntryRepository(k).phaseStates[buildInput.phase].defined
                        /\ ResolvedDateTime(EntryRepository(k)) # NeverPublished
                        /\ IF PublishedLater(EntryRepository(k))
                           THEN /\ EntryRepository(k).phaseStates[buildInput.phase].version
                                        # NoVersion
                                /\ ~EntryUnchanged(k)
                           ELSE EntryUnchanged(k)
                 /\ ~EntryUnchanged(k) =>
                        /\ PublishedLater(EntryRepository(k))
                        /\ buildState.anyDependenciesUpdated
                        /\ EntryReplaced(k)
            ELSE EntryUnchanged(k)

C15_Witness ==
    /\ buildPc = "publish"
    /\ \E k \in 1..Len(InputEntries) :
            /\ k > Len(buildInput.declared.devDependencies)
            /\ InOrganization(k)
            /\ InputPhaseDateTime # NeverPublished
            /\ PublishedLater(EntryRepository(k))
            /\ EntryReplaced(k)
            /\ ~EntryUnchanged(k)

----------------------------------------------------------------------------
\* Some declared dependency has been rewritten.
AnyEntryRewritten == \E k \in 1..Len(InputEntries) : ~EntryUnchanged(k)

\* The step of the loop over the additional dependencies for one that was
\* published later than the repository.
AdditionalUpdatedStep ==
    /\ AtAdditional
    /\ buildPc' = "additional"
    /\ PublishedLater(CurrentAdditional)

\* C16: the step for an additional dependency that is updated sets
\* anyDependenciesUpdated and leaves the package configuration, package.json
\* and savePackageConfigurationPending as they are; when #buildPublishState
\* returns, savePackageConfigurationPending is true exactly if a declared
\* dependency has been rewritten.
C16_AdditionalDependency ==
    [][ /\ AdditionalUpdatedStep =>
                /\ buildState'.anyDependenciesUpdated
                /\ packageConfiguration' = packageConfiguration
                /\ packageFile' = packageFile
                /\ buildState'.savePackageConfigurationPending
                        = buildState.savePackageConfigurationPending
        /\ buildPc' = "publish" =>
                (buildState'.savePackageConfigurationPending <=> AnyEntryRewritten')
      ]_vars

C16_Witness ==
    /\ buildPc = "publish"
    /\ buildRepository.additionalDependencies # << >>
    /\ buildState.anyDependenciesUpdated
    /\ ~buildState.savePackageConfigurationPending
    /\ ~AnyEntryRewritten
    /\ \E k \in 1..Len(InputEntries) :
            /\ InOrganization(k)
            /\ EntryRepository(k).workingVersion = InputWorkingVersion

----------------------------------------------------------------------------
\* The version that the repository of the k-th declared dependency has
\* recorded for the phase.
EntryRecordedVersion(k) == EntryRepository(k).phaseStates[buildInput.phase].version

\* C17: in a non-alpha phase a declared dependency that has been rewritten is
\* of an internal or an external repository with a recorded version V; for
\* an internal repository named N the entry is acme/N#vV, for an external
\* one it is V in the beta phase and ^V in the production phase.
C17_NonAlphaDependencyVersion ==
    PackageRead /\ buildInput.phase # "alpha" =>
        \A k \in 1..Len(InputEntries) :
            ~EntryUnchanged(k) =>
                /\ EntryRecordedVersion(k) # NoVersion
                /\ CASE EntryRepository(k).dependencyType = "internal" ->
                            DeclaredEntries(packageConfiguration)[k].version =
                                <<"acme", "/", EntryRepositoryName(k), "#", "v">>
                                    \o EntryRecordedVersion(k)
                     [] EntryRepository(k).dependencyType = "external" ->
                            DeclaredEntries(packageConfiguration)[k].version =
                                IF buildInput.phase = "beta"
                                THEN EntryRecordedVersion(k)
                                ELSE <<"^">> \o EntryRecordedVersion(k)
                     [] OTHER -> FALSE

C17_Witness ==
    /\ buildPc = "publish"
    /\ buildInput.phase = "prod"
    /\ \E k \in 1..Len(InputEntries) :
            /\ InOrganization(k)
            /\ EntryRepository(k).dependencyType = "internal"
            /\ DeclaredEntries(packageConfiguration)[k].version =
                    <<"acme", "/", "core", "#", "v", "1", ".", "0", ".", "0">>

----------------------------------------------------------------------------
\* The k-th declared dependency is one that the loop takes as updated and
\* for which no dependency version can be formed: its repository has the
\* working version of this repository, a state and a resolved date/time for
\* the phase, was published later than this repository, and has no version
\* recorded for the phase or, in a non-alpha phase, a type that is neither
\* external nor internal. ExpectedVersionFault is the error for it.
ExpectedVersionFault(k) ==
    IF EntryRecordedVersion(k) = NoVersion THEN "version not set"
    ELSE IF /\ buildInput.phase # "alpha"
            /\ EntryRepository(k).dependencyType \notin {"external", "internal"}
         THEN "invalid dependency type"
         ELSE "none"

UpdatedWithoutVersion(k) ==
    /\ InOrganization(k)
    /\ EntryRepository(k).workingVersion = InputWorkingVersion
    /\ EntryRepository(k).phaseStates[buildInput.phase].defined
    /\ ResolvedDateTime(EntryRepository(k)) # NeverPublished
    /\ PublishedLater(EntryRepository(k))
    /\ ExpectedVersionFault(k) # "none"

\* package.json as it was when the activation began.
InputPackageFile ==
    [version |-> buildInput.version,
     devDependencies |-> buildInput.declared.devDependencies,
     dependencies |-> buildInput.declared.dependencies]

\* C18 (as stated, for the declared dependencies that the loop considers):
\* with such a dependency the loop never gets past it, publish() is not
\* reached and, when the build has ended with the error, package.json is as
\* it was.
C18_FaultBeforeAnyWrite ==
    \A k \in 1..Len(InputEntries) :
        UpdatedWithoutVersion(k) =>
            /\ ~Processed(k)
            /\ buildPc = "fault" => packageFile = InputPackageFile

\* C18 (amended): with a declared dependency of the organization whose
\* repository has the working version of this repository, is found updated
\* and has no version recorded for the phase or, in a non-alpha phase, a
\* type that is neither external nor internal, the step of the loop for it
\* ends the build with the error of dependencyVersionFor, so that the loop
\* never gets past it and publish() is not reached; no dependency entry of
\* package.json is written, and the version in package.json is changed only
\* by the version bump that precedes the loop, which is written and
\* committed when the branch is one step ahead and the run is no dry run.
C18_FaultBeforeDependenciesWritten ==
    [][ \A k \in 1..Len(InputEntries) :
            UpdatedWithoutVersion(k) =>
                /\ ~Processed(k)'
                /\ buildPc' \notin {"additional", "publish", "published"}
                /\ packageFile'.devDependencies = buildInput.declared.devDependencies
                /\ packageFile'.dependencies = buildInput.declared.dependencies
                /\ packageFile'.version # buildInput.version =>
                        /\ BranchOneStepAhead /\ InputBranchIsValid /\ ~buildInput.dryRun
                        /\ packageFile'.version = BumpedVersion
                /\ buildPc = "dependencies" /\ dependencyIndex = k =>
                        /\ buildPc' = "fault"
                        /\ buildFault' = ExpectedVersionFault(k)
                        /\ packageConfiguration' = packageConfiguration
      ]_vars

C18_Witness ==
    /\ buildPc = "fault"
    /\ buildFault = "version not set"
    /\ packageFile.version = BumpedVersion
    /\ commits = <<BumpedVersion>>
    /\ \E k \in 1..Len(InputEntries) : UpdatedWithoutVersion(k) /\ dependencyIndex = k

----------------------------------------------------------------------------
----------------------------------------------------------------------------
\* C20: a step of updatePhaseState with date/time t leaves one and the same
\* date/time in the phase state of the repository, in the phase state of
\* the publish state and in its phaseDateTime: t without its milliseconds
\* plus one second, which is a whole second, strictly later than t and at
\* most one second later; t itself is kept in none of them.
C20_RoundedUpToNextSecond ==
    [][ \A t \in PublishInstants :
            UpdatePhaseStateDateTime(t) =>
                LET stored == buildState'.phaseDateTime
                IN /\ buildRepository'.phaseStates[buildInput.phase].dateTime = stored
                   /\ buildState'.phaseState.dateTime = stored
                   /\ buildState'.phaseState.defined
                   /\ \E second \in 0..(MaxSecond + 1) :
                            /\ stored = second * 1000
                            /\ second * 1000 <= t + 1000
                            /\ (second - 1) * 1000 <= t
                            /\ t < second * 1000
                   /\ stored # t
      ]_vars

C20_Witness ==
    /\ buildPc = "published"
    /\ buildInput.phaseStates[buildInput.phase].defined
    /\ buildInput.phaseStates[buildInput.phase].dateTime < MaxSecond * 1000
    /\ buildState.phaseDateTime = (MaxSecond + 1) * 1000
    /\ buildRepository.phaseStates[buildInput.phase].dateTime = (MaxSecond + 1) * 1000

----------------------------------------------------------------------------
\* C21: a step that calls updatePhaseState changes, in the phase state of
\* the repository for the current phase, only the fields of the partial
\* state: with a version only, the date/time is kept and so is the cached
\* phaseDateTime; with a date/time only, the version is kept. The phase
\* states of the other phases and of the other repositories are unchanged,
\* and the publish state holds the same phase state as the repository.
C21_OnlyGivenFields ==
    [][ (buildPc \in {"publish", "steps"} /\ buildPc' \in {"steps", "published"}) =>
            LET before == buildRepository.phaseStates[buildInput.phase]
                after == buildRepository'.phaseStates[buildInput.phase]
            IN /\ \A q \in Phases \ {buildInput.phase} :
                        buildRepository'.phaseStates[q] = buildRepository.phaseStates[q]
               /\ buildInput'.repositories = buildInput.repositories
               /\ buildState'.phaseState = after
               /\ after.defined = before.defined
               /\ buildPc' = "steps" =>
                        /\ after.dateTime = before.dateTime
                        /\ buildState'.phaseDateTime = buildState.phaseDateTime
                        /\ buildInput.phase # "alpha" =>
                                after.version \in {before.version,
                                                   packageConfiguration'.version}
               /\ buildPc' = "published" => after.version = before.version
      ]_vars

C21_Witness ==
    /\ buildPc = "steps"
    /\ buildState.phaseState.version = packageConfiguration.version
    /\ buildState.phaseState.dateTime # NeverPublished
    /\ buildState.phaseState.dateTime = buildInput.phaseStates[buildInput.phase].dateTime
    /\ buildState.phaseDateTime = buildState.phaseState.dateTime

----------------------------------------------------------------------------
\* C22: in a non-alpha phase, when the manifest version carries the previous
\* phase's identifier and the change detection against the previous phase's
\* date/time reports a change or throws, and always when the previous phase
\* was never published, publish() faults with nothing changed: the manifest
\* and its version in the publish state, the phase states (version and
\* date/time), the step marker and the steps executed are as before.
C22_FaultBeforeVersion ==
    [][ /\ pc = "publish"
        /\ repositoryPublishState.preReleaseIdentifier = PREVIOUS_PHASE[phase]
        /\ \/ PublishChanged
           \/ /\ PhaseDateTime(repositoryIndex, PREVIOUS_PHASE[phase]) = NeverPublished
              /\ pc' # "stopped"
        => /\ pc' = "finally"
           /\ fault'
           /\ manifest' = manifest
           /\ repositoryPublishState' = repositoryPublishState
           /\ configuration' = configuration
           /\ disk' = disk
           /\ executed' = executed
      ]_vars

C22_Witness ==
    /\ pc = "finally"
    /\ faulted = "publish"
    /\ repositoryPublishState.preReleaseIdentifier = PREVIOUS_PHASE[phase]
    /\ PhaseDateTime(repositoryIndex, PREVIOUS_PHASE[phase]) = NeverPublished
    /\ manifest[repositoryIndex] = repositoryPublishState.version

----------------------------------------------------------------------------
\* C23: the repository publish state is accessible only while a repository
\* is being processed: reading it where publishAll is between repositories
\* (before the first, between two, after the last, where it finalizes)
\* throws instead of returning the state of a repository processed before.
C23_ThrowsOutsideRepository ==
    pc = "loop" => repositoryPublishStateThrows(repositoryPublishState)

----------------------------------------------------------------------------
\* C24: in a dry run no step of a run writes the configuration documents or
\* a manifest file, the action of a step spawns nothing for a command that
\* is skipped on dry run (build, tag) and spawns a command that is
\* parameterized on dry run (install, commit, push) with --dry-run as its
\* last argument; outside a dry run the command of each of these steps is
\* spawned with its arguments as they are, whatever its run option.
C24_DryRunWritesNothing ==
    /\ [][ (dryRun /\ pc # "stopped") => (disk' = disk /\ manifest' = manifest) ]_vars
    /\ [](pc = "inStep" /\ CurrentStep \in DOMAIN StepCommand =>
            LET command == StepCommand[CurrentStep]
                committing == CurrentStep = "commit" /\ spawned = NotSpawned
            IN /\ (dryRun /\ command.runOption = SkipOnDryRun) => spawned = NotSpawned
               /\ (dryRun /\ command.runOption = ParameterizeOnDryRun /\ ~committing) =>
                        spawned = command.args \o <<"--dry-run">>
               /\ (~dryRun /\ ~committing) => spawned = command.args)

C24_Witness ==
    /\ dryRun
    /\ pc = "inStep"
    /\ CurrentStep = "push"
    /\ spawned = <<"git", "push", "--atomic", "origin", "--dry-run">>
    /\ saved # NotSaved
    /\ \E r \in RepositoryNames : <<r, "build">> \in Range(executed)
    /\ \E r \in RepositoryNames : manifest[r] # repositoryPublishState.version

----------------------------------------------------------------------------
\* C25: for every version string that #buildPublishState accepts, the
\* version formatted from the parsed fields by updatePackageVersion without
\* overrides is that string.
C25_FormatOfParsed ==
    buildPc = "branch" =>
        PackageVersion(updatePackageVersion(buildState, << >>)) = packageFile.version

----------------------------------------------------------------------------
\* The fields of a version, and the sets of arguments of updatePackageVersion
\* that give some of the fields of a version and leave the others undefined.
VersionFields == {"majorVersion", "minorVersion", "patchVersion", "preReleaseIdentifier"}

Overrides(version) == {[field \in given |-> version[field]] : given \in SUBSET VersionFields}

FirstVersion ==
    [majorVersion |-> MaxMajor + 1, minorVersion |-> MaxMinor + 1,
     patchVersion |-> MaxPatch + 1, preReleaseIdentifier |-> Null]

SecondVersion ==
    [majorVersion |-> 0, minorVersion |-> 0, patchVersion |-> 0,
     preReleaseIdentifier |-> "beta"]

\* The arguments of the two calls that the publisher makes: all the fields
\* (version branch ahead), the pre-release identifier only (phase reached).
LaterOverrides == {SecondVersion, [preReleaseIdentifier |-> "beta"]}

\* C26: updatePackageVersion replaces exactly the version fields for which
\* an override is given and carries over every other field of the publish
\* state, also when it is applied twice in a row (checked on the publish
\* state of every package version parsed); the phase transition of a
\* non-alpha publish leaves major, minor and patch as they are and writes
\* the version with this phase's identifier; minor 4, patch 0 and no
\* pre-release identifier applied to 2.3.5-alpha give 2.4.0.
C26_ExactlyTheOverrides ==
    [][ /\ (buildPc = "parse" /\ buildPc' = "branch" /\ buildInput.declared = NoDependencies) =>
            \A first \in Overrides(FirstVersion), second \in LaterOverrides :
                LET once == updatePackageVersion(buildState', first)
                    twice == updatePackageVersion(once, second)
                IN \A field \in DOMAIN buildState' :
                    /\ once[field] = IF field \in DOMAIN first THEN first[field]
                                                              ELSE buildState'[field]
                    /\ twice[field] = IF field \in DOMAIN second THEN second[field]
                                                                ELSE once[field]
        /\ (buildPc = "publish" /\ buildPc' = "steps" /\ buildInput.phase # "alpha") =>
                /\ buildState'.majorVersion = buildState.majorVersion
                /\ buildState'.minorVersion = buildState.minorVersion
                /\ buildState'.patchVersion = buildState.patchVersion
                /\ buildState'.preReleaseIdentifier = PhaseIdentifier(buildInput.phase)
                /\ packageConfiguration'.version =
                        formatVersion(buildState.majorVersion, buildState.minorVersion,
                                      buildState.patchVersion, PhaseIdentifier(buildInput.phase))
        /\ PackageVersion(updatePackageVersion(
                [majorVersion |-> 2, minorVersion |-> 3, patchVersion |-> 5,
                 preReleaseIdentifier |-> "alpha"],
                [minorVersion |-> 4, patchVersion |-> 0, preReleaseIdentifier |-> Null]))
           = <<"2", ".", "4", ".", "0">>
      ]_vars

C26_Witness ==
    /\ buildPc = "steps"
    /\ buildInput.phase = "prod"
    /\ buildInput.version = formatVersion(MaxMajor, MaxMinor, MaxPatch, "beta")
    /\ packageConfiguration.version = formatVersion(MaxMajor, MaxMinor, MaxPatch, Null)
    /\ packageFile.version = packageConfiguration.version

----------------------------------------------------------------------------
\* The lines of git status that were processed, and those of git log.
UncommittedRecords == {k \in 1..Len(records) : records[k].uncommitted}

CommittedRecords == {k \in 1..Len(records) : ~records[k].uncommitted}

NonAlphaCall == changeInput # << >> /\ changeInput.phase # "alpha"

Changed(file) == IsChangedFile(file, changeInput.ignoreGitHub, changeInput.excludePaths)

\* C27: in a non-alpha phase anyChanges does not return when the working
\* tree has an uncommitted file that is not excluded and that a commit since
\* the last publication touched as well: it fails with the uncommitted
\* changes fault.
C27_UncommittedAlsoCommitted ==
    (NonAlphaCall /\ changePc = "returned") =>
        ~ \E k \in UncommittedRecords, j \in CommittedRecords :
            /\ records[k].addFile # NoFile
            /\ records[k].addFile = records[j].addFile
            /\ Changed(records[k].addFile)

----------------------------------------------------------------------------
\* The lines that name a file, as the file removed or as the file added.
RecordsOf(file) ==
    {k \in 1..Len(records) : file \in {records[k].deleteFile, records[k].addFile}}

\* The most recent line that names a file removes it: a delete, or a rename
\* from it.
LastRemoved(file) ==
    /\ RecordsOf(file) # {}
    /\ \E k \in RecordsOf(file) :
        /\ \A j \in RecordsOf(file) : j <= k
        /\ records[k].deleteFile = file
        /\ records[k].addFile # file

\* C28: a file whose most recent line is a delete of it or a rename from it
\* is not in the changed-file set; so after a rename of A to B followed by a
\* delete of B the set holds neither A nor B.
C28_RemovedNotInSet ==
    \A file \in Files : LastRemoved(file) => file \notin changedFilesSet

C28_Witness ==
    /\ Len(records) = 2
    /\ records[1].deleteFile = SourceFile
    /\ records[1].addFile = RenamedFile
    /\ records[2].deleteFile = RenamedFile
    /\ records[2].addFile = NoFile
    /\ Changed(RenamedFile)
    /\ SourceFile \notin changedFilesSet
    /\ RenamedFile \notin changedFilesSet

----------------------------------------------------------------------------
\* A path has a segment that starts with a dot.
HasHiddenSegment(file) ==
    \E k \in 1..Len(file) : file[k] = "." /\ (k = 1 \/ file[k - 1] = "/")

\* A path is excluded from the changes of the call: hidden and not under
\* .github/ with ignoreGitHub false, package-lock.json, under test/, equal
\* to an excluded path or under one that ends with a slash.
Excluded(file) ==
    \/ /\ HasHiddenSegment(file)
       /\ ~(~changeInput.ignoreGitHub /\ StartsWith(file, <<".", "github", "/">>))
    \/ file = <<"package-lock", ".", "json">>
    \/ StartsWith(file, <<"test", "/">>)
    \/ \E excludePath \in changeInput.excludePaths :
            \/ file = excludePath
            \/ excludePath[Len(excludePath)] = "/" /\ StartsWith(file, excludePath)

\* C29: the changed-file set never holds an excluded path, and anyChanges
\* does not return true for a phase published before when the files
\* modified since are all excluded.
C29_NoExcludedPath ==
    /\ \A file \in changedFilesSet : ~Excluded(file)
    /\ (changePc = "returned" /\ changeInput.phaseDateTime # NeverPublished
            /\ (\A file \in Files :
                    mtimes[file] > changeInput.phaseDateTime => Excluded(file)))
        => anyChanges = "false"

C29_Witness ==
    /\ changePc = "returned"
    /\ anyChanges = "false"
    /\ changeInput.excludePaths # {}
    /\ changedFilesSet = {WorkflowFile}
    /\ \E k \in 1..Len(records) : records[k].addFile = DocumentFile
    /\ mtimes[DocumentFile] > changeInput.phaseDateTime
    /\ mtimes[TestFile] > changeInput.phaseDateTime

----------------------------------------------------------------------------
\* C30: a call of anyChanges in a non-alpha phase looks at the remote
\* repository first, also for a phase never published: with outstanding
\* remote changes it faults with no line processed and never returns; with
\* none, or in the alpha phase, a call for a phase never published returns
\* true with no line of git log or git status processed.
C30_RemoteFirst ==
    /\ (NonAlphaCall /\ changeInput.outstanding) =>
            /\ anyChanges = Undefined
            /\ records = << >>
            /\ changePc \in {"fetch", "fault"}
            /\ changePc = "fault" => changeFault = "Remote repository has outstanding changes"
    /\ (changeInput # << >> /\ changeInput.phaseDateTime = NeverPublished
            /\ ~(NonAlphaCall /\ changeInput.outstanding)) =>
            /\ records = << >>
            /\ changedFilesSet = {}
            /\ changeFault = "none"
            /\ changePc \in {"fetch", "returned"}
            /\ changePc = "returned" => anyChanges = "true"

C30_Witness ==
    /\ NonAlphaCall
    /\ changeInput.outstanding
    /\ changeInput.phaseDateTime = NeverPublished
    /\ changePc = "fault"
    /\ changeFault = "Remote repository has outstanding changes"

----------------------------------------------------------------------------
\* The call returned for a phase published before.
ReturnedForPublished ==
    changePc = "returned" /\ changeInput.phaseDateTime # NeverPublished

\* A path remains in the changed-file set after the lines of the commits
\* and of the working tree were merged: the most recent line that names it
\* adds it, and it is not excluded.
Remaining(file) ==
    RecordsOf(file) # {} /\ ~LastRemoved(file) /\ ~Excluded(file)

\* C31: for a phase published before, a call of anyChanges that returns
\* gives true if and only if a path remaining in the changed-file set has a
\* modification time strictly later than the instant of the last
\* publication; no remaining path, or remaining paths all modified at or
\* before that instant, give false.
C31_LaterThanLastPublished ==
    ReturnedForPublished =>
        /\ changedFilesSet = {file \in Files : Remaining(file)}
        /\ anyChanges = "true" <=>
                \E file \in Files :
                    Remaining(file) /\ mtimes[file] > changeInput.phaseDateTime
        /\ anyChanges \in {"true", "false"}

\* A remaining path was modified at the instant of the last publication and
\* none later: false.
C31_Witness ==
    /\ ReturnedForPublished
    /\ anyChanges = "false"
    /\ Len(records) = MaxRecords
    /\ \E k \in UncommittedRecords : records[k].addFile = SourceFile
    /\ Remaining(SourceFile)
    /\ mtimes[SourceFile] = changeInput.phaseDateTime

----------------------------------------------------------------------------
\* The effective status of a pair of index and working-tree status, by the
\* precedence of the claim.
EffectiveStatus(indexStatus, workingTreeStatus) ==
    CASE indexStatus = " " -> workingTreeStatus
      [] indexStatus # " " /\ workingTreeStatus = " " -> indexStatus
      [] indexStatus # " " /\ workingTreeStatus = "D" -> "D"
      [] indexStatus = "A" /\ workingTreeStatus \notin {" ", "D"} -> "A"
      [] OTHER -> indexStatus

\* The set after a line with an effective status: a delete removes the
\* path, a rename removes the old path and adds the new, anything else adds
\* the path; a path that is excluded is not added.
EffectOn(files, effective, file, newFile) ==
    CASE effective = "D" -> files \ {file}
      [] effective = "R" -> (files \ {file}) \cup {path \in {newFile} : ~Excluded(path)}
      [] OTHER -> files \cup {path \in {file} : ~Excluded(path)}

\* A line of git status was processed in the step.
StatusLineProcessed ==
    /\ Len(records') = Len(records) + 1
    /\ records'[Len(records')].uncommitted

\* C32: a line of git status with a two-character status acts on the
\* changed-file set as its effective status does: the other half if one half
\* is blank, else D for a working-tree D, else A for an index A, else the
\* index status; D deletes, R removes the old path and adds the new,
\* anything else adds.
C32_StatusPrecedence ==
    [][ StatusLineProcessed =>
            LET line == records'[Len(records')]
            IN changedFilesSet' =
                    EffectOn(changedFilesSet,
                             EffectiveStatus(line.status[1], line.status[2]),
                             line.file, line.newFile)
      ]_vars

\* A file added to the index and deleted from the working tree was removed
\* from the set, and a rename modified in the working tree was processed.
C32_Witness ==
    /\ Len(records) = 2
    /\ records[1].uncommitted
    /\ records[1].status = <<"R", "M">>
    /\ records[1].file = SourceFile
    /\ records[2].status = <<"A", "D">>
    /\ records[2].file = SourceFile
    /\ changedFilesSet = {RenamedFile}

----------------------------------------------------------------------------
\* A run was seen by the call.
RunSeen == workflowRunID # NoWorkflowRunID

\* The step is a pass of the do loop, and not a change at GitHub.
QueryStep == workflowPc = "query" /\ workflowRuns' = workflowRuns

\* The listing of the step reports the run seen before in a status, and a
\* run of another identifier that is not completed.
SeenRunReported(statuses) ==
    \E k \in DOMAIN response' :
        response'[k].id = workflowRunID /\ response'[k].status \in statuses

SeenRunConcluded(conclusions) ==
    \E k \in DOMAIN response' :
        /\ response'[k].id = workflowRunID
        /\ response'[k].status = "completed"
        /\ response'[k].conclusion \in conclusions

SecondRunReported ==
    \/ RunSeen /\ \E k \in DOMAIN response' :
                    response'[k].id # workflowRunID /\ response'[k].status # "completed"
    \/ \E j, k \in DOMAIN response' :
            /\ response'[j].id # response'[k].id
            /\ response'[j].status # "completed"
            /\ response'[k].status # "completed"

\* C33: while no run that is not completed has been seen the call makes at
\* most ten queries, and at the tenth it faults with "Workflow run not
\* started"; once a run is seen the call keeps that run, never faults with
\* not started, goes on with the queries while the run is not reported
\* completed, returns when it is reported completed with success and faults
\* with "Workflow" and the conclusion otherwise; a query that reports a
\* second run that is not completed faults.
C33_BoundedUntilSeen ==
    /\ [](workflowPc = "query" /\ ~RunSeen => queryCount < QueryLimit)
    /\ [](workflowFault = "Workflow run not started" =>
                queryCount = QueryLimit /\ ~RunSeen /\ workflowPc = "fault")
    /\ [](workflowPc = "returned" /\ ~workflowInput.dryRun =>
                /\ RunSeen
                /\ \E k \in DOMAIN response :
                        /\ response[k].id = workflowRunID
                        /\ response[k].status = "completed"
                        /\ response[k].conclusion = "success")
    /\ [][ RunSeen =>
                /\ workflowRunID' = workflowRunID
                /\ workflowFault' # "Workflow run not started"
         ]_vars
    /\ [][ QueryStep =>
                /\ SecondRunReported => workflowPc' = "fault"
                /\ RunSeen /\ ~SecondRunReported =>
                    /\ SeenRunConcluded({"success"}) => workflowPc' = "returned"
                    /\ SeenRunConcluded(Conclusions \ {"success"}) =>
                            /\ workflowPc' = "fault"
                            /\ workflowFault' \in {"Workflow " \o conclusion :
                                                        conclusion \in Conclusions}
                    /\ ~SeenRunReported({"completed"}) =>
                            workflowPc' = "query" /\ workflowFault' = "none"
         ]_vars

\* The run was seen, the queries went on past the tenth and the call
\* returned when the run was reported completed with success.
C33_Witness ==
    /\ workflowPc = "returned"
    /\ RunSeen
    /\ queryCount > QueryLimit
    /\ workflowFault = "none"

----------------------------------------------------------------------------
\* The commit triggers one run, and that run has concluded with success.
OnlyRunSucceeded ==
    /\ workflowInput # << >>
    /\ ~workflowInput.dryRun
    /\ \E id \in WorkflowRunIDs :
        /\ workflowInput.triggers = {id}
        /\ workflowRuns[id] = [status |-> "completed", conclusion |-> "success"]

\* C37: when the run that the commit triggers concludes with success, the
\* call eventually returns without a fault, whether or not a query saw the
\* run before it completed.
C37_SuccessEventuallyReturns ==
    OnlyRunSucceeded ~> (workflowPc = "returned" /\ workflowFault = "none")

\* The same for a run that a query saw before it completed.
SeenSuccessEventuallyReturns ==
    (OnlyRunSucceeded /\ RunSeen) ~> (workflowPc = "returned" /\ workflowFault = "none")

----------------------------------------------------------------------------
\* The order of the steps of the claim, and the place of a step in it.
ClaimedOrder ==
    <<"install", "build", "commit", "tag", "push", "workflow (push)", "release",
      "workflow (release)", "pull request", "npm wait">>

ClaimedPlace(step) == CHOOSE k \in DOMAIN ClaimedOrder : ClaimedOrder[k] = step

\* The steps whose action was started for repository r in this run: those
\* completed and, if r is the current repository, the one in progress.
StartedFor(r) ==
    [k \in 1..Len(ExecutedFor(r)) |-> ExecutedFor(r)[k][2]]
        \o (IF pc = "inStep" /\ repositoryIndex = r THEN <<CurrentStep>> ELSE << >>)

\* A step may be executed for a repository in a phase.
MayExecute(step, r, p) ==
    LET repository == repositories[r]
    IN /\ step \in {"tag", "release", "workflow (release)"} =>
            repository.dependencyType # "helper"
       /\ step = "workflow (push)" => repository.hasPushWorkflow
       /\ step = "workflow (release)" => repository.hasReleaseWorkflow
       /\ step = "pull request" => p = "prod" /\ repository.dependencyType # "helper"
       /\ step = "npm wait" => repository.dependencyType = "external"

----------------------------------------------------------------------------
\* The version recorded in the repository's state of a phase.
RecordedFor(phaseStates, p) == phaseStates[p].version

\* C35: a publish records a version in the phase state of a repository only
\* if its dependency type is external or internal: for an application or a
\* helper no step of the publish of any phase sets or changes the version of
\* any of its phase states.
C35_VersionOnlyForDependencies ==
    [][ buildRepository.dependencyType \notin {"external", "internal"} =>
            /\ \A p \in Phases :
                    RecordedFor(buildRepository'.phaseStates, p)
                        = RecordedFor(buildRepository.phaseStates, p)
            /\ \A p \in Phases :
                    RecordedFor(buildRepository'.phaseStates, p) = NoVersion
            /\ buildState' # << >> => buildState'.phaseState.version = NoVersion
      ]_vars

\* An application was moved to the beta version and published, and its
\* phase state carries a date/time and no version.
C35_Witness ==
    /\ buildPc = "published"
    /\ buildInput.phase = "beta"
    /\ buildRepository.dependencyType = "application"
    /\ packageFile.version = formatVersion(MaxMajor, MaxMinor, 0, "beta")
    /\ buildRepository.phaseStates["beta"].dateTime # NeverPublished
    /\ buildRepository.phaseStates["beta"].version = NoVersion

----------------------------------------------------------------------------
\* publish() is entered for a repository whose manifest carries the
\* identifier of the version of the current phase, with no step persisted
\* and the phase published before.
AlreadyInPhase ==
    /\ pc = "publish"
    /\ manifest[repositoryIndex][4] = PhaseIdentifier(phase)
    /\ configuration.publishState.step = Undefined
    /\ PhaseDateTime(repositoryIndex, phase) # NeverPublished

\* publish() returns from there without a fault, having executed no step,
\* spawned nothing and left the manifest and the phase states as they were.
SkipStep ==
    /\ pc' = "published"
    /\ faulted' = "none"
    /\ executed' = executed
    /\ spawned' = NotSpawned
    /\ manifest' = manifest
    /\ configuration'.phaseStates = configuration.phaseStates

\* C36: in a non-alpha phase a repository whose manifest carries the
\* identifier of the current phase, with no step persisted and no changes
\* since the phase was last published, is skipped: publish() can return
\* without a fault, no step is executed, and the date/time and the version
\* of the phase are unchanged.
C36_SkippedWhenUnchanged ==
    /\ [](AlreadyInPhase => ENABLED PublishSkip)
    /\ [][ (AlreadyInPhase /\ pc' \notin {"stopped", "finally"}) => SkipStep ]_vars

\* The same in the beta phase alone.
BetaSkippedWhenUnchanged ==
    /\ []((AlreadyInPhase /\ phase = "beta") => ENABLED PublishSkip)
    /\ [][ (AlreadyInPhase /\ phase = "beta" /\ pc' \notin {"stopped", "finally"}) =>
                SkipStep ]_vars

\* A repository is skipped in the beta phase.
BetaSkipped ==
    /\ pc = "published"
    /\ phase = "beta"
    /\ executed = << >>
    /\ manifest[repositoryIndex][4] = "beta"

\* The publish state of the repository has been built without fault and
\* publish() has not yet begun.
PublishStateBuilt == buildPc = "publish"

\* The major and minor version of package.json as the build left it in the
\* working tree.
ManifestMajorMinor ==
    MajorMinor(parsedVersionGroups(packageFile.version).majorVersion,
               parsedVersionGroups(packageFile.version).minorVersion)

\* C38: once the publish state of a repository has been built without
\* fault, the repository's workingVersion is the major.minor of the version
\* that package.json then carries, also when the build moved the version to
\* that of the branch.
C38_WorkingVersionOfManifest ==
    PublishStateBuilt => buildRepository.workingVersion = ManifestMajorMinor

\* Where the build left the version as it was, workingVersion is the
\* major.minor of package.json.
WorkingVersionOfKeptManifest ==
    (PublishStateBuilt /\ commits = << >> /\ ~buildInput.dryRun)
        => buildRepository.workingVersion = ManifestMajorMinor

VersionKeptAndBuilt ==
    /\ PublishStateBuilt /\ commits = << >> /\ ~buildInput.dryRun
    /\ buildRepository.workingVersion = ManifestMajorMinor

\* The date/time of phase p of repository r in the configuration in memory,
\* and in the configuration files as a process would load them.
RecordedDateTime(r, p) == loadConfiguration(disk).phaseStates[r][p].dateTime

\* A step that starts a process or ends one from outside: the configuration
\* in memory is that of the files again.
Reloaded == pc = "stopped" \/ (pc' = "stopped" /\ exitStatus' = Killed)

\* The last statement of a publish() that ran all its steps without fault.
EndOfPublish ==
    /\ pc = "steps" /\ stepIndex > NumSteps /\ ~fault
    /\ pc' = "published" /\ faulted' = "none"

RerunBeforeFirstStep ==
    /\ pc = "publish" /\ ~dryRun
    /\ resumedFrom.phase = phase
    /\ resumedFrom.repositoryName = repositoryIndex
    /\ resumedFrom.step = Undefined
    /\ configuration.publishState.step = Undefined
    /\ manifest[repositoryIndex][4] = PhaseIdentifier(phase)
    /\ PhaseDateTime(repositoryIndex, phase) = NeverPublished

\* C40: a run that follows one which faulted after the manifest version was
\* moved to the current phase and before the first step (no step recorded)
\* does not fault on a precondition of publish(): unless the process is
\* ended from outside, publish() goes on to the steps.
C40_ResumesBeforeFirstStep ==
    [][ (RerunBeforeFirstStep /\ pc' # "stopped") => (pc' = "steps" /\ ~fault') ]_vars

\* A beta run that follows one which stopped inside a step goes on to the
\* steps.
BetaResumesInsideStep ==
    [][ (/\ pc = "publish" /\ phase = "beta"
         /\ manifest[repositoryIndex][4] = "beta"
         /\ configuration.publishState.step # Undefined
         /\ pc' # "stopped") => (pc' = "steps" /\ ~fault') ]_vars

BetaRerunBeforeFirstStep == RerunBeforeFirstStep /\ phase = "beta"

ProdRerunBeforeFirstStep == RerunBeforeFirstStep /\ phase = "prod"

====
